---- MODULE Spec2Model ----
(***************************************************************************)
(* A model of the hierarchical state machine compiler (codegen/common.py,  *)
(* codegen/base_lang.py, codegen/rust_lang.py, sm-compiler.py) and of the  *)
(* runtime it generates.                                                   *)
(*                                                                         *)
(* Strings are sequences of tokens: every punctuation character is a token *)
(* of its own ("/", ".", "[", "]", ",", "@", "_") and a state name is a    *)
(* sequence of name tokens.  A path is a sequence of strings.              *)
(***************************************************************************)
EXTENDS Integers, Sequences, FiniteSets, TLC

\* ------------------------------------------------------------------------
\* Strings
\* ------------------------------------------------------------------------

NoStr == << >>

Max(a, b) == IF a > b THEN a ELSE b
Min(a, b) == IF a < b THEN a ELSE b

\* s[a:b] of Python for 0 <= a, b (0-based, end exclusive)
Slice(s, a, b) == SubSeq(s, a + 1, Min(b, Len(s)))

\* s[:-n] of Python, n > 0
DropLast(s, n) == SubSeq(s, 1, Len(s) - n)

StartsWith(s, pre) ==
    /\ Len(s) >= Len(pre)
    /\ SubSeq(s, 1, Len(pre)) = pre

RECURSIVE Split(_, _)
\* str.split(sep) for a one-token separator: always at least one piece
Split(s, sep) ==
    IF \E i \in 1..Len(s) : s[i] = sep
    THEN LET i == CHOOSE k \in 1..Len(s) :
                     s[k] = sep /\ \A m \in 1..(k - 1) : s[m] # sep
         IN  <<SubSeq(s, 1, i - 1)>> \o Split(SubSeq(s, i + 1, Len(s)), sep)
    ELSE <<s>>

RECURSIVE Strip(_, _)
\* str.strip(ch): drops ch from both ends
Strip(s, ch) ==
    IF s # << >> /\ s[1] = ch THEN Strip(Tail(s), ch)
    ELSE IF s # << >> /\ s[Len(s)] = ch THEN Strip(SubSeq(s, 1, Len(s) - 1), ch)
    ELSE s

RECURSIVE ReplaceAll(_, _)
\* str.replace(pat, ""): removes the occurrences of pat, left to right
ReplaceAll(s, pat) ==
    IF s = << >> THEN << >>
    ELSE IF StartsWith(s, pat) THEN ReplaceAll(SubSeq(s, Len(pat) + 1, Len(s)), pat)
    ELSE <<s[1]>> \o ReplaceAll(Tail(s), pat)

RECURSIVE Join(_, _)
\* sep.join(parts)
Join(parts, sep) ==
    IF parts = << >> THEN << >>
    ELSE IF Len(parts) = 1 THEN parts[1]
    ELSE parts[1] \o sep \o Join(Tail(parts), sep)

\* ------------------------------------------------------------------------
\* Path algebra (codegen/common.py)
\* ------------------------------------------------------------------------

root == <<"root">>
NoneTarget == <<"None">>          \* the Python value None of a `to` field
NullStr == <<"null">>

flatten_name(path, separator) == Join(path, separator)

\* a parent-relative form that climbs one level only
resolve_target_path_one_level(current_path, target_str) ==
    IF target_str = NoneTarget \/ target_str = NoStr THEN current_path
    ELSE IF StartsWith(target_str, <<"/">>)
    THEN LET parts == Split(Strip(target_str, "/"), "/")
         IN  IF parts[1] # root THEN <<root>> \o parts ELSE parts
    ELSE IF StartsWith(target_str, <<"root", "/">>)
    THEN Split(target_str, "/")
    ELSE IF StartsWith(target_str, <<".", "/">>)
    THEN IF target_str = <<".", "/">> \/ target_str = <<".">>
         THEN current_path
         ELSE current_path \o Split(SubSeq(target_str, 3, Len(target_str)), "/")
    ELSE DropLast(current_path, 1)
            \o Split(ReplaceAll(target_str, <<".", ".", "/">>), "/")

resolve_target_path(current_path, target_str) ==
    IF target_str = NoneTarget \/ target_str = NoStr THEN current_path
    ELSE IF StartsWith(target_str, <<"/">>)
    THEN LET parts == Split(Strip(target_str, "/"), "/")
         IN  IF parts[1] # root THEN <<root>> \o parts ELSE parts
    ELSE IF StartsWith(target_str, <<"root", "/">>)
    THEN Split(target_str, "/")
    ELSE IF StartsWith(target_str, <<".", ".", "/">>)
    THEN LET parent_scope == DropLast(current_path, 2)
             clean_target == ReplaceAll(target_str, <<".", ".", "/">>)
         IN  parent_scope \o Split(clean_target, "/")
    ELSE IF StartsWith(target_str, <<".", "/">>)
    THEN IF target_str = <<".", "/">> \/ target_str = <<".">>
         THEN current_path
         ELSE current_path \o Split(SubSeq(target_str, 3, Len(target_str)), "/")
    ELSE DropLast(current_path, 1) \o Split(target_str, "/")

\* re.match(r'(.*)/\[(.*)\]', target_str): both groups greedy
ForkMatch(s) ==
    {i \in 1..Len(s) : /\ i + 1 <= Len(s)
                       /\ s[i] = "/" /\ s[i + 1] = "["
                       /\ \E j \in (i + 2)..Len(s) : s[j] = "]"}

MaxOf(S) == CHOOSE x \in S : \A y \in S : y <= x

parse_fork_target(target_str) ==
    IF target_str = NoneTarget THEN [base |-> NoneTarget, hasForks |-> FALSE, forks |-> << >>]
    ELSE IF ForkMatch(target_str) # {}
    THEN LET i == MaxOf(ForkMatch(target_str))
             j == MaxOf({k \in (i + 2)..Len(target_str) : target_str[k] = "]"})
             content == SubSeq(target_str, i + 2, j - 1)
             pieces == Split(content, ",")
         IN  [base |-> SubSeq(target_str, 1, i - 1), hasForks |-> TRUE,
              forks |-> [k \in 1..Len(pieces) |-> Strip(pieces[k], " ")]]
    ELSE [base |-> target_str, hasForks |-> FALSE, forks |-> << >>]

\* the length of the common prefix, not lowered for identical paths
get_lca_index_unadjusted(source_path, target_path) ==
    LET min_len == Min(Len(source_path), Len(target_path))
        diff == {i \in 1..min_len : source_path[i] # target_path[i]}
    IN  IF diff = {} THEN min_len
        ELSE (CHOOSE i \in diff : \A k \in diff : i <= k) - 1

get_lca_index(source_path, target_path) ==
    LET min_len == Min(Len(source_path), Len(target_path))
        diff == {i \in 1..min_len : source_path[i] # target_path[i]}
        lca_index == IF diff = {} THEN min_len
                     ELSE (CHOOSE i \in diff : \A k \in diff : i <= k) - 1
    IN  IF lca_index = Len(source_path) /\ lca_index = Len(target_path)
        THEN lca_index - 1
        ELSE lca_index

\* A generated function: state_<c>_<k>
Fn(path, suffix) == [c |-> flatten_name(path, <<"_">>), k |-> suffix]

\* target_path[:n] of Python for any integer n >= 0
Prefix(path, n) == SubSeq(path, 1, Min(n, Len(path)))

\* an exit sequence that runs one level too far and exits the common
\* ancestor as well
get_exit_sequence_through_lca(source_path, target_path) ==
    LET lca_index == get_lca_index(source_path, target_path)
        n == Max(Len(source_path) - Max(lca_index - 1, 0), 0)
    IN  [k \in 1..n |-> Fn(Prefix(source_path, Len(source_path) - k + 1), "exit")]

\* the list of exit functions, deepest first
get_exit_sequence(source_path, target_path) ==
    LET lca_index == get_lca_index(source_path, target_path)
        n == Max(Len(source_path) - Max(lca_index, 0), 0)
    IN  [k \in 1..n |-> Fn(Prefix(source_path, Len(source_path) - k + 1), "exit")]

\* the list of (path, suffix) pairs of the entry sequence, shallowest first
EntrySteps(source_path, target_path) ==
    LET lca0 == get_lca_index(source_path, target_path)
        lca_index == IF lca0 = Len(target_path) THEN lca0 - 1 ELSE lca0
        n == Max(Len(target_path) - lca_index, 0)
    IN  [k \in 1..n |->
            LET i == lca_index + k - 1
            IN  [path |-> Prefix(target_path, i + 1),
                 suffix |-> IF i = Len(target_path) - 1 THEN "entry" ELSE "start"]]

\* an entry sequence that runs from the destination upwards
get_entry_sequence_deepest_first(source_path, target_path) ==
    LET steps == EntrySteps(source_path, target_path)
    IN  [k \in 1..Len(steps) |-> Fn(steps[Len(steps) - k + 1].path,
                                    steps[Len(steps) - k + 1].suffix)]

get_entry_sequence(source_path, target_path) ==
    LET steps == EntrySteps(source_path, target_path)
    IN  [k \in 1..Len(steps) |-> Fn(steps[k].path, steps[k].suffix)]

\* ------------------------------------------------------------------------
\* Models (the tree of maps the loader delivers)
\* ------------------------------------------------------------------------

\* a one-token name per segment
Pth(names) == <<root>> \o [i \in 1..Len(names) |-> <<names[i]>>]

\* the target string "/n1/n2/..."
RECURSIVE AbsStr(_)
AbsStr(names) ==
    IF names = << >> THEN << >> ELSE <<"/", names[1]>> \o AbsStr(Tail(names))

\* guards: the literals true and false, a boolean field of the user context
\* that the host sets between ticks, and the comparison `time > n`
GTrue == [k |-> "true", n |-> 0]
GFalse == [k |-> "false", n |-> 0]
GIn(i) == [k |-> "in", n |-> i]
GTime(n) == [k |-> "time", n |-> n]

Tr(to, guard) == [to |-> to, guard |-> guard, action |-> FALSE]
TrAct(to, guard) == [to |-> to, guard |-> guard, action |-> TRUE]

LeafNode(transitions) ==
    [states |-> << >>, hasInitial |-> FALSE, initial |-> NoStr, orthogonal |-> FALSE,
     history |-> FALSE, transitions |-> transitions]
OrNode(states, initial, transitions) ==
    [states |-> states, hasInitial |-> TRUE, initial |-> initial, orthogonal |-> FALSE,
     history |-> FALSE, transitions |-> transitions]
AndNode(states, transitions) ==
    [states |-> states, hasInitial |-> FALSE, initial |-> NoStr, orthogonal |-> TRUE,
     history |-> FALSE, transitions |-> transitions]

NoDecisions == [d \in {} |-> << >>]

\* Scenario 1: composite A, children s1 and s2, s1 loops on itself (to: ./)
SelfSlashTo == <<".", "/">>
SelfDotTo == <<".">>
SelfNodes(to) ==
    (Pth(<< >>) :> OrNode(<< <<"A">> >>, <<"A">>, << >>))
 @@ (Pth(<<"A">>) :> OrNode(<< <<"s1">>, <<"s2">> >>, <<"s1">>, << >>))
 @@ (Pth(<<"A", "s1">>) :> LeafNode(<< Tr(to, GTrue) >>))
 @@ (Pth(<<"A", "s2">>) :> LeafNode(<< >>))

\* Scenario 2: orthogonal O with limbs L (l1, l2) and R (r1)
OrthoNodes ==
    (Pth(<< >>) :> OrNode(<< <<"O">>, <<"X">> >>, <<"O">>, << >>))
 @@ (Pth(<<"O">>) :> AndNode(<< <<"L">>, <<"R">> >>, << Tr(AbsStr(<<"X">>), GIn(3)) >>))
 @@ (Pth(<<"O", "L">>) :> OrNode(<< <<"l1">>, <<"l2">> >>, <<"l1">>, << >>))
 @@ (Pth(<<"O", "L", "l1">>) :> LeafNode(<< Tr(AbsStr(<<"O", "L", "l2">>), GIn(1)) >>))
 @@ (Pth(<<"O", "L", "l2">>) :> LeafNode(<< Tr(<<"l1">>, GIn(1)) >>))
 @@ (Pth(<<"O", "R">>) :> OrNode(<< <<"r1">>, <<"r2">> >>, <<"r1">>, << >>))
 @@ (Pth(<<"O", "R", "r1">>) :> LeafNode(<< Tr(<<"r2">>, GIn(2)) >>))
 @@ (Pth(<<"O", "R", "r2">>) :> LeafNode(<< Tr(AbsStr(<<"O", "L", "l2">>), GIn(2)) >>))
 @@ (Pth(<<"X">>) :> LeafNode(<< Tr(AbsStr(<<"O", "R", "r2">>), GIn(1)),
                                 Tr(NoneTarget, GIn(2)) >>))

\* Scenario 3: leaf boot with a termination transition, next to a composite
\* whose child terminates with the string "null"
TermNodes ==
    (Pth(<< >>) :> OrNode(<< <<"boot">>, <<"C">> >>, <<"boot">>, << >>))
 @@ (Pth(<<"boot">>) :> LeafNode(<< Tr(NoneTarget, GIn(1)), Tr(<<"C">>, GIn(2)) >>))
 @@ (Pth(<<"C">>) :> OrNode(<< <<"c1">>, <<"c2">> >>, <<"c1">>, << Tr(NoStr, GIn(3)) >>))
 @@ (Pth(<<"C", "c1">>) :> LeafNode(<< Tr(<<"c2">>, GIn(1)) >>))
 @@ (Pth(<<"C", "c2">>) :> LeafNode(<< Tr(NullStr, GIn(2)) >>))

\* Scenario 4: S goes to decision @pick; rule 1 leads to A, rule 2 to B
DecisionNodes ==
    (Pth(<< >>) :> OrNode(<< <<"S">>, <<"A">>, <<"B">> >>, <<"S">>, << >>))
 @@ (Pth(<<"S">>) :> LeafNode(<< Tr(<<"@", "pick">>, GIn(1)) >>))
 @@ (Pth(<<"A">>) :> LeafNode(<< Tr(<<"S">>, GIn(1)) >>))
 @@ (Pth(<<"B">>) :> LeafNode(<< Tr(<<"S">>, GIn(1)) >>))
DecisionRules ==
    (<<"pick">> :> << Tr(<<"A">>, GIn(2)), Tr(<<"B">>, GIn(3)) >>)

\* A decision transition followed by an ordinary one: S goes to @pick with an
\* action, then to B; the only rule of pick leads to A
FallNodes ==
    (Pth(<< >>) :> OrNode(<< <<"S">>, <<"A">>, <<"B">> >>, <<"S">>, << >>))
 @@ (Pth(<<"S">>) :> LeafNode(<< TrAct(<<"@", "pick">>, GIn(1)), Tr(<<"B">>, GIn(2)) >>))
 @@ (Pth(<<"A">>) :> LeafNode(<< Tr(<<"S">>, GIn(3)) >>))
 @@ (Pth(<<"B">>) :> LeafNode(<< Tr(<<"S">>, GIn(3)) >>))
FallRules ==
    (<<"pick">> :> << Tr(<<"A">>, GIn(3)) >>)

\* Scenario 5: leaf waiting leaves for done when time > 0.1 (hundredths)
TimerThreshold == 10
TimerNodes ==
    (Pth(<< >>) :> OrNode(<< <<"waiting">>, <<"done">> >>, <<"waiting">>, << >>))
 @@ (Pth(<<"waiting">>) :> LeafNode(<< Tr(<<"done">>, GTime(TimerThreshold)) >>))
 @@ (Pth(<<"done">>) :> LeafNode(<< >>))

\* Fork targets: orthogonal P with regions A, B, C, entered from outside
\* (X) and from inside (a1) with explicit branches
ForkTo == AbsStr(<<"P">>) \o <<"/", "[", "A", "/", "a2", ",", "B", "/", "b2", "]">>
ForkNodes ==
    (Pth(<< >>) :> OrNode(<< <<"X">>, <<"P">> >>, <<"X">>, << >>))
 @@ (Pth(<<"X">>) :> LeafNode(<< Tr(ForkTo, GIn(1)), Tr(AbsStr(<<"P">>), GIn(2)) >>))
 @@ (Pth(<<"P">>) :> AndNode(<< <<"A">>, <<"B">>, <<"C">> >>, << Tr(AbsStr(<<"X">>), GIn(3)) >>))
 @@ (Pth(<<"P", "A">>) :> OrNode(<< <<"a1">>, <<"a2">> >>, <<"a1">>, << >>))
 @@ (Pth(<<"P", "A", "a1">>) :> LeafNode(<< Tr(ForkTo, GIn(1)) >>))
 @@ (Pth(<<"P", "A", "a2">>) :> LeafNode(<< Tr(<<"a1">>, GIn(2)) >>))
 @@ (Pth(<<"P", "B">>) :> OrNode(<< <<"b1">>, <<"b2">> >>, <<"b1">>, << >>))
 @@ (Pth(<<"P", "B", "b1">>) :> LeafNode(<< >>))
 @@ (Pth(<<"P", "B", "b2">>) :> LeafNode(<< Tr(<<"b1">>, GIn(2)) >>))
 @@ (Pth(<<"P", "C">>) :> OrNode(<< <<"c1">>, <<"c2">> >>, <<"c1">>, << >>))
 @@ (Pth(<<"P", "C", "c1">>) :> LeafNode(<< Tr(<<"c2">>, GIn(2)) >>))
 @@ (Pth(<<"P", "C", "c2">>) :> LeafNode(<< >>))

\* Nested orthogonal states: limb R of O holds the orthogonal state P
NestedForkTo == AbsStr(<<"O", "R", "P">>) \o <<"/", "[", "A", "/", "a2", "]">>
NestedNodes ==
    (Pth(<< >>) :> OrNode(<< <<"O">> >>, <<"O">>, << >>))
 @@ (Pth(<<"O">>) :> AndNode(<< <<"L">>, <<"R">> >>, << >>))
 @@ (Pth(<<"O", "L">>) :> OrNode(<< <<"l1">> >>, <<"l1">>, << >>))
 @@ (Pth(<<"O", "L", "l1">>) :> LeafNode(<< Tr(NestedForkTo, GIn(1)) >>))
 @@ (Pth(<<"O", "R">>) :> OrNode(<< <<"r0">>, <<"P">> >>, <<"r0">>, << >>))
 @@ (Pth(<<"O", "R", "r0">>) :> LeafNode(<< Tr(<<"P", "/", "A", "/", "a2">>, GIn(2)),
                                           Tr(<<"P">>, GIn(3)) >>))
 @@ (Pth(<<"O", "R", "P">>) :> AndNode(<< <<"A">>, <<"B">> >>, << Tr(<<"r0">>, GIn(3)) >>))
 @@ (Pth(<<"O", "R", "P", "A">>) :> OrNode(<< <<"a1">>, <<"a2">> >>, <<"a1">>, << >>))
 @@ (Pth(<<"O", "R", "P", "A", "a1">>) :> LeafNode(<< >>))
 @@ (Pth(<<"O", "R", "P", "A", "a2">>) :> LeafNode(<< >>))
 @@ (Pth(<<"O", "R", "P", "B">>) :> OrNode(<< <<"b1">> >>, <<"b1">>, << >>))
 @@ (Pth(<<"O", "R", "P", "B", "b1">>) :> LeafNode(<< >>))

\* A model with a state for each test of validate_model, and an orthogonal
\* state of its own for the shape of regions: composites M, A and B, the
\* orthogonal states P and Q, the fork target of X and the decision pick
PlantNodes ==
    (Pth(<< >>) :> OrNode(<< <<"M">>, <<"P">>, <<"Q">>, <<"X">> >>, <<"M">>, << >>))
 @@ (Pth(<<"M">>) :> OrNode(<< <<"m1">>, <<"m2">> >>, <<"m1">>, << >>))
 @@ (Pth(<<"M", "m1">>) :> LeafNode(<< Tr(<<"m2">>, GIn(1)), Tr(<<"@", "pick">>, GIn(2)) >>))
 @@ (Pth(<<"M", "m2">>) :> LeafNode(<< Tr(<<"m1">>, GIn(1)), Tr(AbsStr(<<"X">>), GIn(2)) >>))
 @@ (Pth(<<"P">>) :> AndNode(<< <<"A">>, <<"B">> >>, << >>))
 @@ (Pth(<<"P", "A">>) :> OrNode(<< <<"a1">>, <<"a2">> >>, <<"a1">>, << >>))
 @@ (Pth(<<"P", "A", "a1">>) :> LeafNode(<< Tr(<<"a2">>, GIn(1)) >>))
 @@ (Pth(<<"P", "A", "a2">>) :> LeafNode(<< Tr(<<"a1">>, GIn(2)) >>))
 @@ (Pth(<<"P", "B">>) :> OrNode(<< <<"b1">>, <<"b2">> >>, <<"b1">>, << >>))
 @@ (Pth(<<"P", "B", "b1">>) :> LeafNode(<< Tr(<<"b2">>, GIn(2)) >>))
 @@ (Pth(<<"P", "B", "b2">>) :> LeafNode(<< >>))
 @@ (Pth(<<"Q">>) :> AndNode(<< <<"c">>, <<"d">> >>, << >>))
 @@ (Pth(<<"Q", "c">>) :> OrNode(<< <<"c1">> >>, <<"c1">>, << >>))
 @@ (Pth(<<"Q", "c", "c1">>) :> LeafNode(<< >>))
 @@ (Pth(<<"Q", "d">>) :> OrNode(<< <<"d1">> >>, <<"d1">>, << >>))
 @@ (Pth(<<"Q", "d", "d1">>) :> LeafNode(<< >>))
 @@ (Pth(<<"X">>) :> LeafNode(<< Tr(ForkTo, GIn(1)), Tr(AbsStr(<<"M">>), GIn(3)) >>))
PlantRules ==
    (<<"pick">> :> << Tr(AbsStr(<<"Q">>), GIn(3)), Tr(<<"m2">>, GTrue) >>)

\* the ways PlantNodes is spoiled, each in a state of its own
Defects ==
    {"root_no_initial", "root_initial", "no_initial", "bad_initial", "bad_target",
     "no_decision", "fork_leaf", "no_branch", "bad_rule", "one_region", "leaf_region"}

Nowhere == AbsStr(<<"nowhere">>)

\* the model with the defects D
Defective(D) ==
    LET gone == {p \in DOMAIN PlantNodes :
                   \/ "one_region" \in D /\ Prefix(p, 3) = Pth(<<"Q", "d">>)
                   \/ "leaf_region" \in D /\ Len(p) > 3 /\ Prefix(p, 3) = Pth(<<"Q", "c">>)}
        node(p) ==
            LET n == PlantNodes[p]
            IN  CASE p = <<root>> /\ "root_no_initial" \in D ->
                        [n EXCEPT !.hasInitial = FALSE, !.initial = NoStr]
                  [] p = <<root>> /\ "root_initial" \in D -> [n EXCEPT !.initial = <<"zz">>]
                  [] p = Pth(<<"P", "A">>) /\ "no_initial" \in D ->
                        [n EXCEPT !.hasInitial = FALSE, !.initial = NoStr]
                  [] p = Pth(<<"P", "B">>) /\ "bad_initial" \in D -> [n EXCEPT !.initial = <<"zz">>]
                  [] p = Pth(<<"M", "m2">>) /\ "bad_target" \in D ->
                        [n EXCEPT !.transitions[2].to = Nowhere]
                  [] p = Pth(<<"M", "m1">>) /\ "no_decision" \in D ->
                        [n EXCEPT !.transitions[2].to = <<"@", "nope">>]
                  [] p = Pth(<<"P", "A", "a2">>) /\ "fork_leaf" \in D ->
                        [n EXCEPT !.transitions[1].to = AbsStr(<<"X">>) \o <<"/", "[", "k", "]">>]
                  [] p = Pth(<<"X">>) /\ "no_branch" \in D ->
                        [n EXCEPT !.transitions[1].to =
                            AbsStr(<<"P">>) \o <<"/", "[", "A", "/", "zz", ",", "B", "/", "b2", "]">>]
                  [] p = Pth(<<"Q">>) /\ "one_region" \in D -> [n EXCEPT !.states = << <<"c">> >>]
                  [] p = Pth(<<"Q", "c">>) /\ "leaf_region" \in D -> LeafNode(<< >>)
                  [] OTHER -> n
    IN  [nodes |-> [p \in (DOMAIN PlantNodes) \ gone |-> node(p)],
         decisions |-> IF "bad_rule" \in D
                       THEN [PlantRules EXCEPT ![<<"pick">>][1].to = Nowhere]
                       ELSE PlantRules]

\* A composite-OR source with transitions into its own subtree and onto
\* itself: S holds the composite M (m1, m2) and the leaf s2
ContainerNodes ==
    (Pth(<< >>) :> OrNode(<< <<"S">> >>, <<"S">>, << >>))
 @@ (Pth(<<"S">>) :> OrNode(<< <<"M">>, <<"s2">> >>, <<"M">>,
                            << TrAct(<<".", "/", "s2">>, GIn(1)),
                               Tr(AbsStr(<<"S">>), GIn(2)),
                               Tr(<<".", "/", "M", "/", "m2">>, GIn(3)) >>))
 @@ (Pth(<<"S", "M">>) :> OrNode(<< <<"m1">>, <<"m2">> >>, <<"m1">>, << >>))
 @@ (Pth(<<"S", "M", "m1">>) :> LeafNode(<< >>))
 @@ (Pth(<<"S", "M", "m2">>) :> LeafNode(<< >>))
 @@ (Pth(<<"S", "s2">>) :> LeafNode(<< >>))

HistoryNode(states, initial, transitions) ==
    [OrNode(states, initial, transitions) EXCEPT !.history = TRUE]

\* History: orthogonal O with the history region H (h1, h2) and the region
\* R whose initial child G (g1, g2) keeps history too; X re-enters O, H, or
\* forks into both regions; g2 terminates the machine or leaves for X
HistoryForkTo ==
    AbsStr(<<"O">>) \o <<"/", "[", "H", "/", "h2", ",", "R", "/", "G", "/", "g2", "]">>
HistoryNodes ==
    (Pth(<< >>) :> OrNode(<< <<"O">>, <<"X">> >>, <<"O">>, << >>))
 @@ (Pth(<<"O">>) :> AndNode(<< <<"H">>, <<"R">> >>, << Tr(AbsStr(<<"X">>), GIn(3)) >>))
 @@ (Pth(<<"O", "H">>) :> HistoryNode(<< <<"h1">>, <<"h2">> >>, <<"h1">>, << >>))
 @@ (Pth(<<"O", "H", "h1">>) :> LeafNode(<< Tr(<<"h2">>, GIn(1)) >>))
 @@ (Pth(<<"O", "H", "h2">>) :> LeafNode(<< Tr(<<"h1">>, GIn(2)) >>))
 @@ (Pth(<<"O", "R">>) :> OrNode(<< <<"G">> >>, <<"G">>, << >>))
 @@ (Pth(<<"O", "R", "G">>) :> HistoryNode(<< <<"g1">>, <<"g2">> >>, <<"g1">>, << >>))
 @@ (Pth(<<"O", "R", "G", "g1">>) :> LeafNode(<< Tr(<<"g2">>, GIn(1)) >>))
 @@ (Pth(<<"O", "R", "G", "g2">>) :> LeafNode(<< TrAct(NoneTarget, GIn(2)),
                                                Tr(AbsStr(<<"X">>), GIn(1)) >>))
 @@ (Pth(<<"X">>) :> LeafNode(<< Tr(AbsStr(<<"O">>), GIn(1)),
                                 Tr(AbsStr(<<"O", "H">>), GIn(2)),
                                 TrAct(HistoryForkTo, GIn(3)) >>))

\* A decision whose rules carry actions: S goes to @pick with an action;
\* rule 1 leads to A, rule 2 terminates
RuleActionNodes ==
    (Pth(<< >>) :> OrNode(<< <<"S">>, <<"A">> >>, <<"S">>, << >>))
 @@ (Pth(<<"S">>) :> LeafNode(<< TrAct(<<"@", "pick">>, GIn(1)) >>))
 @@ (Pth(<<"A">>) :> LeafNode(<< Tr(<<"S">>, GIn(1)) >>))
RuleActionRules ==
    (<<"pick">> :> << TrAct(<<"A">>, GIn(2)), TrAct(NoneTarget, GIn(3)) >>)

\* A transition from inside an orthogonal state to that state: P has the
\* regions A (a1 goes to /P) and B, whose leaf b2 goes to the composite b1
ReenterNodes ==
    (Pth(<< >>) :> OrNode(<< <<"P">> >>, <<"P">>, << >>))
 @@ (Pth(<<"P">>) :> AndNode(<< <<"A">>, <<"B">> >>, << >>))
 @@ (Pth(<<"P", "A">>) :> OrNode(<< <<"a1">> >>, <<"a1">>, << >>))
 @@ (Pth(<<"P", "A", "a1">>) :> LeafNode(<< Tr(AbsStr(<<"P">>), GIn(1)) >>))
 @@ (Pth(<<"P", "B">>) :> OrNode(<< <<"b2">>, <<"b1">> >>, <<"b2">>, << >>))
 @@ (Pth(<<"P", "B", "b2">>) :> LeafNode(<< Tr(<<"b1">>, GIn(2)) >>))
 @@ (Pth(<<"P", "B", "b1">>) :> OrNode(<< <<"b11">> >>, <<"b11">>, << >>))
 @@ (Pth(<<"P", "B", "b1", "b11">>) :> LeafNode(<< >>))

ChartNames ==
    {"selfslash", "selfdot", "ortho", "term", "decision", "timer", "fork", "nested",
     "fallthrough", "container", "history", "ruleaction", "reenter"}

Chart(name) ==
    CASE name = "selfslash" -> [nodes |-> SelfNodes(SelfSlashTo), decisions |-> NoDecisions]
      [] name = "selfdot" -> [nodes |-> SelfNodes(SelfDotTo), decisions |-> NoDecisions]
      [] name = "ortho" -> [nodes |-> OrthoNodes, decisions |-> NoDecisions]
      [] name = "term" -> [nodes |-> TermNodes, decisions |-> NoDecisions]
      [] name = "decision" -> [nodes |-> DecisionNodes, decisions |-> DecisionRules]
      [] name = "timer" -> [nodes |-> TimerNodes, decisions |-> NoDecisions]
      [] name = "fork" -> [nodes |-> ForkNodes, decisions |-> NoDecisions]
      [] name = "nested" -> [nodes |-> NestedNodes, decisions |-> NoDecisions]
      [] name = "fallthrough" -> [nodes |-> FallNodes, decisions |-> FallRules]
      [] name = "container" -> [nodes |-> ContainerNodes, decisions |-> NoDecisions]
      [] name = "history" -> [nodes |-> HistoryNodes, decisions |-> NoDecisions]
      [] name = "ruleaction" -> [nodes |-> RuleActionNodes, decisions |-> RuleActionRules]
      [] name = "reenter" -> [nodes |-> ReenterNodes, decisions |-> NoDecisions]

\* ------------------------------------------------------------------------
\* Model lookup and validation (codegen/common.py, sm-compiler.py)
\* ------------------------------------------------------------------------

\* resolve_state_data skips a leading 'root' and walks the rest from the root
FullPath(path_parts) ==
    IF path_parts # << >> /\ path_parts[1] = root THEN path_parts ELSE <<root>> \o path_parts

\* resolve_state_data(...) is not None
HasState(M, path_parts) == FullPath(path_parts) \in DOMAIN M.nodes

resolve_state_data(M, path_parts) == M.nodes[FullPath(path_parts)]

\* 'states' in data
HasStates(node) == node.states # << >>

IsOrthogonal(M, path_parts) ==
    HasState(M, path_parts) /\ resolve_state_data(M, path_parts).orthogonal

InSeq(x, seq) == \E i \in 1..Len(seq) : seq[i] = x

\* a check_state that asks only whether a composite declares 'initial'
StateErrors_declared_only(M, name_path) ==
    LET state_data == M.nodes[name_path]
        trans == state_data.transitions
        initErrs ==
            IF ~HasStates(state_data) THEN {}
            ELSE IF ~state_data.hasInitial /\ ~state_data.orthogonal
                 THEN {[kind |-> "missing_initial", state |-> name_path, index |-> 0]}
            ELSE {}
        transErrs(i) ==
            LET raw_target == trans[i].to
                pf == parse_fork_target(raw_target)
                target_path == resolve_target_path(name_path, pf.base)
            IN  IF raw_target = NoneTarget \/ raw_target = NullStr THEN {}
                ELSE IF StartsWith(raw_target, <<"@">>)
                THEN IF Tail(raw_target) \in DOMAIN M.decisions THEN {}
                     ELSE {[kind |-> "no_decision", state |-> name_path, index |-> i]}
                ELSE IF ~HasState(M, target_path)
                THEN {[kind |-> "no_target", state |-> name_path, index |-> i]}
                ELSE IF ~pf.hasForks THEN {}
                ELSE IF ~HasStates(resolve_state_data(M, target_path))
                THEN {[kind |-> "fork_not_composite", state |-> name_path, index |-> 0]}
                ELSE {[kind |-> "no_fork_branch", state |-> name_path, index |-> 0] :
                        k \in {k \in 1..Len(pf.forks) :
                                 ~HasState(M, target_path \o Split(pf.forks[k], "/"))}}
    IN  initErrs \cup UNION {transErrs(i) : i \in 1..Len(trans)}

\* the errors check_state accumulates for one state: the state it names and,
\* for the messages that carry one, the number of the transition
StateErrors(M, name_path) ==
    LET state_data == M.nodes[name_path]
        trans == state_data.transitions
        initErrs ==
            IF ~HasStates(state_data) THEN {}
            ELSE IF ~state_data.hasInitial /\ ~state_data.orthogonal
                 THEN {[kind |-> "missing_initial", state |-> name_path, index |-> 0]}
            ELSE IF state_data.hasInitial /\ ~InSeq(state_data.initial, state_data.states)
                 THEN {[kind |-> "bad_initial", state |-> name_path, index |-> 0]}
            ELSE {}
        transErrs(i) ==
            LET raw_target == trans[i].to
                pf == parse_fork_target(raw_target)
                target_path == resolve_target_path(name_path, pf.base)
            IN  IF raw_target = NoneTarget \/ raw_target = NullStr THEN {}
                ELSE IF StartsWith(raw_target, <<"@">>)
                THEN IF Tail(raw_target) \in DOMAIN M.decisions THEN {}
                     ELSE {[kind |-> "no_decision", state |-> name_path, index |-> i]}
                ELSE IF ~HasState(M, target_path)
                THEN {[kind |-> "no_target", state |-> name_path, index |-> i]}
                ELSE IF ~pf.hasForks THEN {}
                ELSE IF ~HasStates(resolve_state_data(M, target_path))
                THEN {[kind |-> "fork_not_composite", state |-> name_path, index |-> 0]}
                ELSE {[kind |-> "no_fork_branch", state |-> name_path, index |-> 0] :
                        k \in {k \in 1..Len(pf.forks) :
                                 ~HasState(M, target_path \o Split(pf.forks[k], "/"))}}
    IN  initErrs \cup UNION {transErrs(i) : i \in 1..Len(trans)}

\* a validator that also reports the orthogonal states with fewer than two
\* children or with a child that is not a composite-OR state
validate_model_regions(M) ==
    LET data == M.nodes[<<root>>]
        rootErrs ==
            IF ~data.hasInitial
            THEN {[kind |-> "root_missing_initial", state |-> <<root>>, index |-> 0]}
            ELSE IF ~InSeq(data.initial, data.states)
            THEN {[kind |-> "root_bad_initial", state |-> <<root>>, index |-> 0]}
            ELSE {}
        region(p, i) == M.nodes[p \o <<M.nodes[p].states[i]>>]
        regionErrs ==
            {[kind |-> "bad_regions", state |-> p, index |-> 0] :
                p \in {q \in DOMAIN M.nodes :
                         /\ M.nodes[q].orthogonal
                         /\ \/ Len(M.nodes[q].states) < 2
                            \/ \E i \in 1..Len(M.nodes[q].states) :
                                   ~HasStates(region(q, i)) \/ region(q, i).orthogonal}}
    IN  rootErrs \cup regionErrs \cup UNION {StateErrors(M, p) : p \in DOMAIN M.nodes}

\* a validator that stops at the first error it finds
validate_model_first_error(M) ==
    LET data == M.nodes[<<root>>]
        rootErrs ==
            IF ~data.hasInitial
            THEN {[kind |-> "root_missing_initial", state |-> <<root>>, index |-> 0]}
            ELSE IF ~InSeq(data.initial, data.states)
            THEN {[kind |-> "root_bad_initial", state |-> <<root>>, index |-> 0]}
            ELSE {}
        all == rootErrs \cup UNION {StateErrors(M, p) : p \in DOMAIN M.nodes}
    IN  IF all = {} THEN {} ELSE {CHOOSE e \in all : TRUE}

\* the errors of validate_model: the two checks of the root's 'initial',
\* then check_state on the root and, through it, on every state
validate_model(M) ==
    LET data == M.nodes[<<root>>]
        rootErrs ==
            IF ~data.hasInitial
            THEN {[kind |-> "root_missing_initial", state |-> <<root>>, index |-> 0]}
            ELSE IF ~InSeq(data.initial, data.states)
            THEN {[kind |-> "root_bad_initial", state |-> <<root>>, index |-> 0]}
            ELSE {}
    IN  rootErrs \cup UNION {StateErrors(M, p) : p \in DOMAIN M.nodes}

\* ------------------------------------------------------------------------
\* Names of the generated pointers and functions (BaseGenerator.recurse)
\* ------------------------------------------------------------------------

NoFn == [c |-> NoStr, k |-> "none"]

CName(path) == flatten_name(path, <<"_">>)

PtrName(c) == <<"ptr", "_">> \o c
PtrExitName(c) == PtrName(c) \o <<"_", "exit">>
HistName(c) == <<"hist", "_">> \o c
RegionPtrName(c) == PtrName(c) \o <<"_", "region">>
RegionExitName(c) == RegionPtrName(c) \o <<"_", "exit">>

CallOp(fn) == [op |-> "call", fn |-> fn, ptr |-> NoStr]
PtrOp(name) == [op |-> "callptr", fn |-> NoFn, ptr |-> name]
TerminateOp == [op |-> "terminate", fn |-> NoFn, ptr |-> NoStr]

Calls(fns) == [k \in 1..Len(fns) |-> CallOp(fns[k])]

RECURSIVE Flatten(_)
\* the concatenation of a sequence of sequences
Flatten(seqs) == IF seqs = << >> THEN << >> ELSE seqs[1] \o Flatten(Tail(seqs))

\* ------------------------------------------------------------------------
\* Transition emitter (emit_transition_logic)
\* ------------------------------------------------------------------------

\* a fork entry sequence that enters the fork base with its entry function
ForcedStartEntries_full(entry_source, target_path) ==
    get_entry_sequence(entry_source, target_path)

\* get_entry_sequence with _fmt_entry_forced_start: the fork base is started
ForcedStartEntries(entry_source, target_path) ==
    LET steps == EntrySteps(entry_source, target_path)
    IN  [k \in 1..Len(steps) |->
            IF steps[k].path = target_path THEN Fn(steps[k].path, "start")
            ELSE Fn(steps[k].path, steps[k].suffix)]

\* a cross-limb branch that always leaves and re-enters the whole target limb
CrossLimbOps_whole_limb(M, name_path, target_path, lca_index, hasForks) ==
    LET container_path == Prefix(name_path, lca_index)
        target_limb_path == container_path \o <<target_path[lca_index + 1]>>
    IN  << PtrOp(RegionExitName(CName(target_limb_path))) >>
        \o Calls(get_entry_sequence(container_path, target_path))

\* the cross-limb branch: exit the target limb (or only its active child),
\* enter down to the target, and return
CrossLimbOps(M, name_path, target_path, lca_index, hasForks) ==
    LET container_path == Prefix(name_path, lca_index)
        target_limb == target_path[lca_index + 1]
        target_limb_path == container_path \o <<target_limb>>
        target_limb_c_name == CName(target_limb_path)
        is_composite_limb == /\ HasState(M, target_limb_path)
                             /\ HasStates(resolve_state_data(M, target_limb_path))
        is_targeting_deeper == Len(target_path) > Len(target_limb_path)
        hot == is_composite_limb /\ is_targeting_deeper
        exitOp == IF hot THEN PtrOp(PtrExitName(target_limb_c_name))
                  ELSE PtrOp(RegionExitName(target_limb_c_name))
        entry_source == IF hot THEN target_limb_path ELSE container_path
        entry_funcs == IF ~hasForks THEN get_entry_sequence(entry_source, target_path)
                       ELSE ForcedStartEntries(entry_source, target_path)
    IN  <<exitOp>> \o Calls(entry_funcs)

IsCrossLimb(M, name_path, target_path, lca_index) ==
    /\ IsOrthogonal(M, Prefix(name_path, lca_index))
    /\ Len(name_path) > lca_index
    /\ Len(target_path) > lca_index
    /\ name_path[lca_index + 1] # target_path[lca_index + 1]

\* index (0-based) of the first orthogonal state along target_path, or -1
ParallelAncestorIdx(M, target_path) ==
    LET hits == {i \in 0..(Len(target_path) - 1) : IsOrthogonal(M, Prefix(target_path, i + 1))}
    IN  IF hits = {} THEN -1 ELSE CHOOSE i \in hits : \A k \in hits : i <= k

\* the implicit fork rewrite: [target_path, hasForks, forks]
ImplicitFork(M, name_path, target_path, hasForks, forks) ==
    LET idx == ParallelAncestorIdx(M, target_path)
        limb_idx == idx + 1
        is_same_limb == /\ Len(name_path) > limb_idx
                        /\ name_path[limb_idx + 1] = target_path[limb_idx + 1]
    IN  IF ~hasForks /\ idx # -1 /\ idx < Len(target_path) - 1 /\ ~is_same_limb
        THEN [target_path |-> Prefix(target_path, idx + 1), hasForks |-> TRUE,
              forks |-> << Join(SubSeq(target_path, idx + 2, Len(target_path)), <<"/">>) >>]
        ELSE [target_path |-> target_path, hasForks |-> hasForks, forks |-> forks]

\* the entry calls of the children of the fork base
ForkChildEntries(M, target_path, forks) ==
    IF ~HasState(M, target_path) \/ ~HasStates(resolve_state_data(M, target_path))
    THEN << >>
    ELSE LET children == resolve_state_data(M, target_path).states
             matches(child_name) ==
                 {k \in 1..Len(forks) : Split(forks[k], "/")[1] = child_name}
             entries(child_name) ==
                 IF matches(child_name) # {}
                 THEN LET k == CHOOSE m \in matches(child_name) :
                                    \A n \in matches(child_name) : m <= n
                      IN  get_entry_sequence(target_path,
                                             target_path \o Split(forks[k], "/"))
                 ELSE << Fn(target_path \o <<child_name>>, "entry") >>
         IN  Flatten([i \in 1..Len(children) |-> entries(children[i])])

\* no dynamic child exit at all
DynamicChildExit_none(M, name_path, lca_index) == << >>

\* the dynamic child exit of a composite-OR source that targets its own subtree
DynamicChildExit(M, name_path, lca_index) ==
    IF /\ lca_index >= Len(name_path)
       /\ HasState(M, name_path)
       /\ HasStates(resolve_state_data(M, name_path))
       /\ ~resolve_state_data(M, name_path).orthogonal
    THEN << PtrOp(PtrExitName(CName(name_path))) >>
    ELSE << >>

\* the calls emitted for an ordinary (path) target, up to the final return
OrdinaryOps(M, name_path, raw_target) ==
    LET pf == parse_fork_target(raw_target)
        target_path0 == resolve_target_path(name_path, pf.base)
        lca_index == get_lca_index(name_path, target_path0)
    IN  IF IsCrossLimb(M, name_path, target_path0, lca_index)
        THEN CrossLimbOps(M, name_path, target_path0, lca_index, pf.hasForks)
        ELSE LET rw == ImplicitFork(M, name_path, target_path0, pf.hasForks, pf.forks)
                 target_path == rw.target_path
                 exit_funcs == get_exit_sequence(name_path, target_path)
             IN  DynamicChildExit(M, name_path, lca_index)
                 \o Calls(exit_funcs)
                 \o (IF ~rw.hasForks
                     THEN Calls(get_entry_sequence(name_path, target_path))
                     ELSE Calls(ForcedStartEntries(name_path, target_path))
                          \o Calls(ForkChildEntries(M, target_path, rw.forks)))

\* a termination that exits the source state only
TerminationOps_source_only(name_path) ==
    << CallOp(Fn(name_path, "exit")), TerminateOp >>

\* the calls of a termination transition
TerminationOps(name_path) ==
    Calls(get_exit_sequence(name_path, <<root>>))
    \o << CallOp(Fn(<<root>>, "exit")), TerminateOp >>

Gens == {"rust", "base"}

IsTermination(raw_target) ==
    raw_target = NoneTarget \/ raw_target = NullStr \/ raw_target = NoStr

\* RustGenerator looks the raw target up in the decisions; BaseGenerator
\* tests for the leading '@'
IsDecision(gen, M, raw_target) ==
    IF gen = "rust" THEN raw_target \in DOMAIN M.decisions
    ELSE StartsWith(raw_target, <<"@">>)

DecisionName(gen, raw_target) ==
    IF gen = "rust" THEN raw_target ELSE Tail(raw_target)

RECURSIVE emit_transition_logic(_, _, _, _)
\* the guarded block emitted for transition t of state name_path
emit_transition_logic(gen, M, name_path, t) ==
    LET raw_target == t.to
        blk(kind, ops, rules) ==
            [guard |-> t.guard, action |-> t.action, kind |-> kind, ops |-> ops,
             rules |-> rules]
    IN  IF IsTermination(raw_target)
        THEN blk("termination", TerminationOps(name_path), << >>)
        ELSE IF IsDecision(gen, M, raw_target)
        THEN IF DecisionName(gen, raw_target) \in DOMAIN M.decisions
             THEN LET decision_rules == M.decisions[DecisionName(gen, raw_target)]
                  IN  blk("decision", << >>,
                          [k \in 1..Len(decision_rules) |->
                              emit_transition_logic(gen, M, name_path, decision_rules[k])])
             ELSE blk("raise", << >>, << >>)
        ELSE blk("ordinary", OrdinaryOps(M, name_path, raw_target), << >>)

\* ------------------------------------------------------------------------
\* State walker (BaseGenerator.recurse): ids, parent pointers, context
\* ------------------------------------------------------------------------

RECURSIVE Walk(_, _)
\* the states in the order recurse visits them (state_counter order)
Walk(M, name_path) ==
    LET children == M.nodes[name_path].states
    IN  <<name_path>>
        \o Flatten([i \in 1..Len(children) |-> Walk(M, name_path \o <<children[i]>>)])

StateId(M, name_path) ==
    LET order == Walk(M, <<root>>)
    IN  (CHOOSE i \in 1..Len(order) : order[i] = name_path) - 1

is_composite(M, name_path) == HasStates(M.nodes[name_path])
is_parallel(M, name_path) == M.nodes[name_path].orthogonal

IsLeafState(M, p) == ~is_composite(M, p)
IsAndState(M, p) == is_composite(M, p) /\ is_parallel(M, p)
IsOrState(M, p) == is_composite(M, p) /\ ~is_parallel(M, p)

\* parent_ptrs = (run_ptr, exit_ptr, hist_ptr) handed to a child by recurse
ParentPtrs(M, name_path) ==
    LET parent == DropLast(name_path, 1)
    IN  IF Len(name_path) <= 1
        THEN [run |-> NoStr, exit |-> NoStr, hist |-> NoStr]
        ELSE IF IsAndState(M, parent)
        THEN [run |-> RegionPtrName(CName(name_path)),
              exit |-> RegionExitName(CName(name_path)), hist |-> NoStr]
        ELSE [run |-> PtrName(CName(parent)), exit |-> PtrExitName(CName(parent)),
              hist |-> IF M.nodes[parent].history THEN HistName(CName(parent)) ELSE NoStr]

\* the pointer fields recurse declares in the context record
ContextPtrs(M) ==
    UNION {IF IsOrState(M, p)
           THEN {PtrName(CName(p)), PtrExitName(CName(p)), HistName(CName(p))}
           ELSE IF IsAndState(M, p)
           THEN UNION {{RegionPtrName(CName(p \o <<M.nodes[p].states[i]>>)),
                        RegionExitName(CName(p \o <<M.nodes[p].states[i]>>))} :
                       i \in 1..Len(M.nodes[p].states)}
           ELSE {} : p \in DOMAIN M.nodes}

\* the function state_<c>_<k> is emitted for some state
FnDefined(M, fn) == \E p \in DOMAIN M.nodes : CName(p) = fn.c

StateOfFn(M, fn) == CHOOSE p \in DOMAIN M.nodes : CName(p) = fn.c

\* The generated program: the model with the tables the walker computes
\* once (state ids, parent pointers, the emitted blocks of every state, the
\* declared pointers and the emitted functions)
Generated(gen, M) ==
    [nodes |-> M.nodes,
     ids |-> [p \in DOMAIN M.nodes |-> StateId(M, p)],
     pp |-> [p \in DOMAIN M.nodes |-> ParentPtrs(M, p)],
     blocks |-> [p \in DOMAIN M.nodes |->
                   IF p = <<root>> THEN << >>      \* root_data carries no transitions
                   ELSE [k \in 1..Len(M.nodes[p].transitions) |->
                           emit_transition_logic(gen, M, p, M.nodes[p].transitions[k])]],
     ptrs |-> ContextPtrs(M),
     fns |-> [c \in {CName(p) : p \in DOMAIN M.nodes} |-> StateOfFn(M, [c |-> c, k |-> "do"])]]

\* Context::new / Context.__init__
NewContext(G) ==
    [now |-> 0,
     state_timers |-> [i \in 0..(Cardinality(DOMAIN G.nodes) - 1) |-> 0],
     transition_fired |-> FALSE,
     terminated |-> FALSE,
     ptrs |-> [n \in G.ptrs |-> NoFn],
     inp |-> {},
     err |-> FALSE,
     trace |-> << >>]

\* ------------------------------------------------------------------------
\* Generated runtime (the LEAF / COMPOSITE_OR / COMPOSITE_AND templates)
\* ------------------------------------------------------------------------

\* an entry of the record of what a tick executed: e is the kind of code
\* (guard, action, fire, start, exit, hook_do, do), c the state, i the index
\* of the transition or rule, d the decision nesting depth, v a guard's value
\* (for fire, action and start see RunBlock and StartCode)
Ev(e, name_path, i, v) == [e |-> e, c |-> CName(name_path), i |-> i, d |-> 0, v |-> v]
EvD(e, name_path, i, d, v) == [e |-> e, c |-> CName(name_path), i |-> i, d |-> d, v |-> v]

Log(ctx, ev) == [ctx EXCEPT !.trace = Append(@, ev)]

SetPtr(ctx, name, fn) ==
    IF name \in DOMAIN ctx.ptrs THEN [ctx EXCEPT !.ptrs[name] = fn]
    ELSE [ctx EXCEPT !.err = TRUE]

\* {set_parent}
SetParent(G, ctx, p) ==
    LET pp == G.pp[p]
        c1 == SetPtr(ctx, pp.run, Fn(p, "do"))
        c2 == SetPtr(c1, pp.exit, Fn(p, "exit"))
    IN  IF pp.run = NoStr THEN ctx
        ELSE IF pp.hist # NoStr THEN SetPtr(c2, pp.hist, Fn(p, "entry"))
        ELSE c2

\* a clear_parent that forgets the exit pointer
ClearParent_run_only(G, ctx, p) ==
    LET pp == G.pp[p]
    IN  IF pp.run = NoStr THEN ctx
        ELSE SetPtr(ctx, pp.run, NoFn)

\* {clear_parent}
ClearParent(G, ctx, p) ==
    LET pp == G.pp[p]
    IN  IF pp.run = NoStr THEN ctx
        ELSE SetPtr(SetPtr(ctx, pp.run, NoFn), pp.exit, NoFn)

\* the body of state_<c>_start: stamp the timer, entry code, parent
\* pointers; the start entry records in v whether state_<c>_entry made the call
StartCode(G, ctx, p, from_entry) ==
    LET c1 == [ctx EXCEPT !.state_timers[G.ids[p]] = ctx.now]
    IN  SetParent(G, Log(c1, Ev("start", p, 0, from_entry)), p)

\* state_<c>_start called from a transition block
StateStart(G, ctx, p) == StartCode(G, ctx, p, FALSE)

\* ctx.in_state_<c>()
in_state(G, ctx, p) ==
    LET pp == G.pp[p]
    IN  pp.run \in DOMAIN ctx.ptrs /\ ctx.ptrs[pp.run] = Fn(p, "do")

\* a safety check that never stops the region ticks
safety_check_never(G, ctx, p) == FALSE

\* if !ctx.in_state_<c>() || ctx.transition_fired { return; }
safety_check(G, ctx, p) ==
    IF G.pp[p].run # NoStr
    THEN ~in_state(G, ctx, p) \/ ctx.transition_fired
    ELSE ctx.transition_fired

\* a timer guard that already holds when time equals the threshold
EvalGuard_at_threshold(ctx, time, guard) ==
    CASE guard.k = "true" -> TRUE
      [] guard.k = "false" -> FALSE
      [] guard.k = "in" -> guard.n \in ctx.inp
      [] guard.k = "time" -> time >= guard.n

\* if {test_cond}: the guards of the charts, with time the preamble's
\* ctx.now - ctx.state_timers[id]
EvalGuard(ctx, time, guard) ==
    CASE guard.k = "true" -> TRUE
      [] guard.k = "false" -> FALSE
      [] guard.k = "in" -> guard.n \in ctx.inp
      [] guard.k = "time" -> time > guard.n

RECURSIVE CallFn(_, _, _)
RECURSIVE CallPtr(_, _, _)
RECURSIVE RunOps(_, _, _)
RECURSIVE RunBlocks(_, _, _, _, _, _, _)
RECURSIVE RunBlock(_, _, _, _, _, _, _)
RECURSIVE StateEntry(_, _, _)
RECURSIVE StateExit(_, _, _)
RECURSIVE StateDo(_, _, _)
RECURSIVE EnterRegions(_, _, _, _)
RECURSIVE ExitRegions(_, _, _, _)
RECURSIVE TickRegions(_, _, _, _)

\* a direct call state_<c>_<k>(ctx); a call of a function that was never
\* emitted fails
CallFn(G, ctx, fn) ==
    IF ctx.err THEN ctx
    ELSE IF fn.c \notin DOMAIN G.fns THEN [ctx EXCEPT !.err = TRUE]
    ELSE LET p == G.fns[fn.c]
         IN  CASE fn.k = "start" -> StateStart(G, ctx, p)
               [] fn.k = "entry" -> StateEntry(G, ctx, p)
               [] fn.k = "exit" -> StateExit(G, ctx, p)
               [] fn.k = "do" -> StateDo(G, ctx, p)

\* if let Some(f) = ctx.<name> { f(ctx); }
CallPtr(G, ctx, name) ==
    IF ctx.err THEN ctx
    ELSE IF name \notin DOMAIN ctx.ptrs THEN [ctx EXCEPT !.err = TRUE]
    ELSE IF ctx.ptrs[name] = NoFn THEN ctx
    ELSE CallFn(G, ctx, ctx.ptrs[name])

\* the calls of a fired transition, in order
RunOps(G, ctx, ops) ==
    IF ops = << >> THEN ctx
    ELSE LET o == ops[1]
             c1 == CASE o.op = "call" -> CallFn(G, ctx, o.fn)
                     [] o.op = "callptr" -> CallPtr(G, ctx, o.ptr)
                     [] o.op = "terminate" ->
                          IF ctx.err THEN ctx ELSE [ctx EXCEPT !.terminated = TRUE]
         IN  RunOps(G, c1, Tail(ops))

EnterRegions(G, ctx, p, i) ==
    LET children == G.nodes[p].states
    IN  IF i > Len(children) THEN ctx
        ELSE EnterRegions(G, CallFn(G, ctx, Fn(p \o <<children[i]>>, "entry")), p, i + 1)

ExitRegions(G, ctx, p, i) ==
    LET children == G.nodes[p].states
    IN  IF i > Len(children) THEN ctx
        ELSE ExitRegions(G,
                 CallPtr(G, ctx, RegionExitName(CName(p \o <<children[i]>>))), p, i + 1)

\* an entry function that always descends to the initial child
StateEntry_initial_only(G, ctx, p) ==
    LET c1 == StartCode(G, ctx, p, TRUE)
    IN  IF IsLeafState(G, p) THEN c1
        ELSE IF IsAndState(G, p) THEN EnterRegions(G, c1, p, 1)
        ELSE CallFn(G, c1, Fn(p \o <<G.nodes[p].initial>>, "entry"))

\* state_<c>_entry: start, then descend (history or initial child; all regions)
StateEntry(G, ctx, p) ==
    LET c1 == StartCode(G, ctx, p, TRUE)
        node == G.nodes[p]
        hist == HistName(CName(p))
    IN  IF IsLeafState(G, p) THEN c1
        ELSE IF IsAndState(G, p) THEN EnterRegions(G, c1, p, 1)
        ELSE IF node.history /\ c1.ptrs[hist] # NoFn
        THEN CallFn(G, c1, c1.ptrs[hist])
        ELSE CallFn(G, c1, Fn(p \o <<node.initial>>, "entry"))

\* state_<c>_exit: tear down the active child (or every region), exit code,
\* clear the parent pointers
StateExit(G, ctx, p) ==
    LET c1 == IF IsLeafState(G, p) THEN ctx
              ELSE IF IsAndState(G, p) THEN ExitRegions(G, ctx, p, 1)
              ELSE CallPtr(G, ctx, PtrExitName(CName(p)))
    IN  IF c1.err THEN c1
        ELSE ClearParent(G, Log(c1, Ev("exit", p, 0, TRUE)), p)

\* a block whose action runs after its exit and entry calls
RunBlock_action_last(G, ctx, p, time, b, i, depth) ==
    LET g == EvalGuard(ctx, time, b.guard)
        c1 == Log(ctx, EvD("guard", p, i, depth, g))
        c2 == IF b.kind = "decision" THEN c1
              ELSE Log(c1, EvD("fire", p, i, depth, c1.transition_fired))
        c3 == [c2 EXCEPT !.transition_fired = TRUE]
        c4 == RunOps(G, c3, b.ops)
        c5 == IF b.action THEN Log(c4, EvD("action", p, i, depth, c4.transition_fired)) ELSE c4
    IN  IF ctx.err THEN [ctx |-> ctx, ret |-> TRUE]
        ELSE IF ~g THEN [ctx |-> c1, ret |-> FALSE]
        ELSE IF b.kind = "decision"
        THEN RunBlocks(G, c5, p, time, b.rules, 1, depth + 1)
        ELSE [ctx |-> c5, ret |-> TRUE]

\* one emitted guarded block: the transition hook (not for a decision
\* target), transition_fired, the action, then the calls or the rules; ret
\* tells whether the do function returned.  The fire and action entries
\* record in v the value of transition_fired when they ran.
RunBlock(G, ctx, p, time, b, i, depth) ==
    LET g == EvalGuard(ctx, time, b.guard)
        c1 == Log(ctx, EvD("guard", p, i, depth, g))
        c2 == IF b.kind = "decision" THEN c1
              ELSE Log(c1, EvD("fire", p, i, depth, c1.transition_fired))
        c3 == [c2 EXCEPT !.transition_fired = TRUE]
        c4 == IF b.action THEN Log(c3, EvD("action", p, i, depth, c3.transition_fired)) ELSE c3
    IN  IF ctx.err THEN [ctx |-> ctx, ret |-> TRUE]
        ELSE IF ~g THEN [ctx |-> c1, ret |-> FALSE]
        ELSE IF b.kind = "decision"
        THEN RunBlocks(G, c4, p, time, b.rules, 1, depth + 1)
        ELSE [ctx |-> RunOps(G, c4, b.ops), ret |-> TRUE]

\* the blocks of a state (or the rules of a decision) in declaration order
RunBlocks(G, ctx, p, time, blocks, i, depth) ==
    IF i > Len(blocks) THEN [ctx |-> ctx, ret |-> FALSE]
    ELSE LET r == RunBlock(G, ctx, p, time, blocks[i], i, depth)
         IN  IF r.ret THEN r
             ELSE RunBlocks(G, r.ctx, p, time, blocks, i + 1, depth)

RECURSIVE TickRegions_unchecked(_, _, _, _)
\* region ticks with no safety check between them
TickRegions_unchecked(G, ctx, p, i) ==
    LET children == G.nodes[p].states
        c1 == CallFn(G, ctx, Fn(p \o <<children[i]>>, "do"))
    IN  IF i > Len(children) THEN ctx
        ELSE IF c1.err THEN c1
        ELSE TickRegions_unchecked(G, c1, p, i + 1)

\* {parallel_ticks}: each region's do, each followed by the safety check
TickRegions(G, ctx, p, i) ==
    LET children == G.nodes[p].states
        c1 == CallFn(G, ctx, Fn(p \o <<children[i]>>, "do"))
    IN  IF i > Len(children) THEN ctx
        ELSE IF c1.err \/ safety_check(G, c1, p) THEN c1
        ELSE TickRegions(G, c1, p, i + 1)

\* a composite-OR do that runs the active child before the state's own
\* transitions
StateDo_child_first(G, ctx, p) ==
    LET time == ctx.now - ctx.state_timers[G.ids[p]]
        c1 == Log(ctx, Ev("hook_do", p, 0, TRUE))
        cc == IF IsOrState(G, p) THEN CallPtr(G, c1, PtrName(CName(p))) ELSE c1
        r == RunBlocks(G, cc, p, time, G.blocks[p], 1, 0)
        c2 == Log(r.ctx, Ev("do", p, 0, TRUE))
    IN  IF r.ret THEN r.ctx
        ELSE IF IsAndState(G, p)
        THEN IF safety_check(G, c2, p) THEN c2 ELSE TickRegions(G, c2, p, 1)
        ELSE c2

\* state_<c>_do: hooks, transitions, user do, then the active child or the
\* regions
StateDo(G, ctx, p) ==
    LET time == ctx.now - ctx.state_timers[G.ids[p]]
        blocks == G.blocks[p]
        c1 == Log(ctx, Ev("hook_do", p, 0, TRUE))
        r == RunBlocks(G, c1, p, time, blocks, 1, 0)
        c2 == Log(r.ctx, Ev("do", p, 0, TRUE))
    IN  IF r.ret THEN r.ctx
        ELSE IF IsLeafState(G, p) THEN c2
        ELSE IF IsAndState(G, p)
        THEN IF safety_check(G, c2, p) THEN c2 ELSE TickRegions(G, c2, p, 1)
        ELSE CallPtr(G, c2, PtrName(CName(p)))

\* ------------------------------------------------------------------------
\* Inspector (gen_inspector) and the StateMachine record (HEADER)
\* ------------------------------------------------------------------------

RECURSIVE Inspect(_, _, _)
RECURSIVE InspectRegions(_, _, _, _)
RECURSIVE InspectRegions_slashed(_, _, _, _)

\* region inspectors that push "/" before every region name
InspectRegions_slashed(G, ctx, p, i) ==
    LET children == G.nodes[p].states
    IN  IF i > Len(children) THEN << >>
        ELSE <<"/">> \o Inspect(G, ctx, p \o <<children[i]>>)
             \o (IF i < Len(children) THEN <<",">> ELSE << >>)
             \o InspectRegions_slashed(G, ctx, p, i + 1)

\* the region inspectors, separated by ","
InspectRegions(G, ctx, p, i) ==
    LET children == G.nodes[p].states
    IN  IF i > Len(children) THEN << >>
        ELSE Inspect(G, ctx, p \o <<children[i]>>)
             \o (IF i < Len(children) THEN <<",">> ELSE << >>)
             \o InspectRegions(G, ctx, p, i + 1)

\* inspect_<c>(ctx, buf): what the call appends to buf
Inspect(G, ctx, p) ==
    LET disp_name == IF p = <<root>> THEN << >> ELSE p[Len(p)]
        children == G.nodes[p].states
        active == {i \in 1..Len(children) :
                     ctx.ptrs[PtrName(CName(p))] = Fn(p \o <<children[i]>>, "do")}
    IN  disp_name
        \o (IF IsLeafState(G, p) THEN << >>
            ELSE IF IsAndState(G, p)
            THEN <<"/", "[">> \o InspectRegions(G, ctx, p, 1) \o <<"]">>
            ELSE IF active = {} THEN << >>
            ELSE LET i == CHOOSE k \in active : \A n \in active : k <= n
                 IN  <<"/">> \o Inspect(G, ctx, p \o <<children[i]>>))

Finished == <<"FINISHED">>

\* StateMachine::new: construct the context, enter the root, set sm.root
NewMachine(G) ==
    [built |-> TRUE, root |-> TRUE,
     ctx |-> CallFn(G, NewContext(G), Fn(<<root>>, "entry"))]

\* no machine: the generator raised, or the generated source does not build
NoMachine(G) == [built |-> FALSE, root |-> FALSE, ctx |-> NewContext(G)]

\* a tick that leaves transition_fired as the previous tick left it
tick_no_reset(G, sm, now, inp) ==
    LET c0 == [sm.ctx EXCEPT !.now = now, !.inp = inp, !.trace = << >>]
        c1 == CallFn(G, c0, Fn(<<root>>, "do"))
    IN  IF ~sm.built THEN sm
        ELSE IF ~sm.root THEN [sm EXCEPT !.ctx = c0]
        ELSE [sm EXCEPT !.ctx = c1, !.root = ~c1.terminated]

\* a tick that forgets to clear sm.root when the machine has terminated
tick_keeps_root(G, sm, now, inp) ==
    LET c0 == [sm.ctx EXCEPT !.transition_fired = FALSE, !.now = now, !.inp = inp,
                             !.trace = << >>]
        c1 == CallFn(G, c0, Fn(<<root>>, "do"))
    IN  IF ~sm.built THEN sm
        ELSE IF ~sm.root THEN [sm EXCEPT !.ctx = c0]
        ELSE [sm EXCEPT !.ctx = c1]

\* StateMachine::tick, after the host has set now and the user fields
tick(G, sm, now, inp) ==
    LET c0 == [sm.ctx EXCEPT !.transition_fired = FALSE, !.now = now, !.inp = inp,
                             !.trace = << >>]
        c1 == CallFn(G, c0, Fn(<<root>>, "do"))
    IN  IF ~sm.built THEN sm
        ELSE IF ~sm.root THEN [sm EXCEPT !.ctx = c0]
        ELSE [sm EXCEPT !.ctx = c1, !.root = ~c1.terminated]

is_running(sm) == sm.root

get_state_str(G, sm) ==
    IF sm.root THEN Inspect(G, sm.ctx, <<root>>) ELSE Finished

\* ------------------------------------------------------------------------
\* The compiler pipeline (sm-compiler.py main / generate_lang)
\* ------------------------------------------------------------------------

RECURSIVE BlockOps(_)
RECURSIVE BlockRaises(_)

\* every call emitted in a block, nested rules included
BlockOps(b) ==
    {b.ops[k] : k \in 1..Len(b.ops)} \cup UNION {BlockOps(b.rules[k]) : k \in 1..Len(b.rules)}

BlockRaises(b) ==
    b.kind = "raise" \/ \E k \in 1..Len(b.rules) : BlockRaises(b.rules[k])

AllBlocks(gen, M) ==
    UNION {{emit_transition_logic(gen, M, p, M.nodes[p].transitions[k]) :
              k \in 1..Len(M.nodes[p].transitions)} : p \in (DOMAIN M.nodes) \ {<<root>>}}

\* emission completes without an exception
Emits(gen, M) == \A b \in AllBlocks(gen, M) : ~BlockRaises(b)

\* every function and pointer the emitted transitions name is defined
Links(gen, M) ==
    \A b \in AllBlocks(gen, M) : \A o \in BlockOps(b) :
        /\ o.op = "call" => FnDefined(M, o.fn)
        /\ o.op = "callptr" => o.ptr \in ContextPtrs(M)

\* a Rust source with an undefined name does not compile; the script of the
\* BaseGenerator family resolves names only when the call is reached
Builds(gen, M) == Emits(gen, M) /\ (gen = "rust" => Links(gen, M))

MaxTicks == 5
TimerTicks == 12
Inputs == {1, 2, 3}

VARIABLES chart, phase, sm, ticks, probe

vars == <<chart, phase, sm, ticks, probe>>

\* the models and, per generator, the programs generated from them
Models == [n \in ChartNames |-> Chart(n)]
Programs == [g \in Gens |-> [n \in ChartNames |-> Generated(g, Models[n])]]
Valid == [n \in ChartNames |-> validate_model(Models[n]) = {}]
Built == [g \in Gens |-> [n \in ChartNames |-> Builds(g, Models[n])]]

Model == Models[chart]
Prog(g) == Programs[g][chart]

TickBound == IF chart = "timer" THEN TimerTicks ELSE MaxTicks

\* where a `decisions` map may stand in the model of collect_decisions: at
\* the top level and in the states A, its child a, and B, visited in this order
Places == <<"root", "A", "a", "B">>
DecisionNames == {"p", "q"}

\* the `decisions` key of a place: absent, or a map (possibly empty) whose
\* entries are told apart by the place that defines them
NoLocals == [pl \in {Places[i] : i \in 1..Len(Places)} |-> [has |-> FALSE, names |-> {}]]

RECURSIVE Walk_overwriting(_, _, _)
\* a walk that lets a later definition silently replace an earlier one
Walk_overwriting(locals, acc, i) ==
    LET pl == Places[i]
        fresh == {e \in acc.merged : e[1] \notin locals[pl].names}
                    \cup {<<n, pl>> : n \in locals[pl].names}
    IN  IF i > Len(Places) THEN acc
        ELSE IF locals[pl].names = {} THEN Walk_overwriting(locals, acc, i + 1)
        ELSE Walk_overwriting(locals,
                 [acc EXCEPT !.merged = fresh, !.retained = @ \ {pl}], i + 1)

RECURSIVE WalkDecisions(_, _, _)
\* walk: a non-empty local map is merged name by name and deleted from its
\* state; a name already merged ends the run with exit status 1
WalkDecisions(locals, acc, i) ==
    LET pl == Places[i]
        taken == {e[1] : e \in acc.merged}
    IN  IF i > Len(Places) THEN acc
        ELSE IF locals[pl].names = {} THEN WalkDecisions(locals, acc, i + 1)
        ELSE IF locals[pl].names \cap taken # {}
        THEN [acc EXCEPT !.exit = 1, !.named = pl]
        ELSE WalkDecisions(locals,
                 [acc EXCEPT !.merged = @ \cup {<<n, pl>> : n \in locals[pl].names},
                             !.retained = @ \ {pl}], i + 1)

\* collect_decisions: merged starts as the top-level map, the states are
\* walked, and data['decisions'] becomes merged
collect_decisions(locals) ==
    WalkDecisions(locals,
        [merged |-> {<<n, "root">> : n \in locals["root"].names},
         retained |-> {Places[i] : i \in {k \in 2..Len(Places) : locals[Places[k]].has}},
         exit |-> 0, named |-> "none"], 2)

\* Python's limit on the depth of nested calls (RecursionError beyond it)
RecursionLimit == 4

\* the decisions of the models given to the emitter, and what a rule of
\* theirs may target: a decision or the state T
EmitDecisions == {<<"p">>, <<"q">>}
RuleLists ==
    UNION {[1..n -> {Tr(to, GTrue) :
                       to \in {<<"@">> \o d : d \in EmitDecisions} \cup {<<"T">>}}] :
           n \in 1..2}

\* root with the states S and T; S has the one transition `to: @p`
EmitNodes ==
    (Pth(<< >>) :> OrNode(<< <<"S">>, <<"T">> >>, <<"S">>, << >>))
 @@ (Pth(<<"S">>) :> LeafNode(<< Tr(<<"@", "p">>, GIn(1)) >>))
 @@ (Pth(<<"T">>) :> LeafNode(<< >>))

RECURSIVE emit_depth(_, _, _, _, _)
\* emit_transition_logic(name_path, t, indent_level) seen as a computation:
\* whether it raises RecursionError with `calls` nested calls still allowed,
\* and the deepest indent_level it reaches
emit_depth(gen, M, raw_target, indent_level, calls) ==
    LET rules == M.decisions[DecisionName(gen, raw_target)]
        sub == [k \in 1..Len(rules) |->
                   emit_depth(gen, M, rules[k].to, indent_level + 1, calls - 1)]
    IN  IF calls = 0 THEN [raised |-> TRUE, level |-> indent_level - 1]
        ELSE IF IsTermination(raw_target) THEN [raised |-> FALSE, level |-> indent_level]
        ELSE IF IsDecision(gen, M, raw_target)
        THEN IF DecisionName(gen, raw_target) \notin DOMAIN M.decisions
             THEN [raised |-> TRUE, level |-> indent_level]
             ELSE [raised |-> \E k \in 1..Len(rules) : sub[k].raised,
                   level |-> MaxOf({indent_level} \cup {sub[k].level : k \in 1..Len(rules)})]
        ELSE [raised |-> FALSE, level |-> indent_level]

\* no call of a helper of codegen/common.py or of the compiler is being
\* observed
NoProbe ==
    [fn |-> "none", a |-> << >>, b |-> << >>, t |-> NoStr, defects |-> {}, locals |-> NoLocals,
     done |-> FALSE, path |-> << >>, index |-> 0, errors |-> {}, exit |-> 0,
     emitted |-> FALSE, merged |-> {}, retained |-> {}, named |-> "none",
     c_names |-> << >>, gen |-> "none", graph |-> [d \in EmitDecisions |-> << >>],
     raised |-> FALSE, level |-> 0]

Init ==
    /\ chart \in ChartNames
    /\ phase = "loaded"
    /\ sm = [g \in Gens |-> NoMachine(Prog(g))]
    /\ ticks = 0
    /\ probe = NoProbe

\* validation errors: the compiler exits non-zero, nothing is generated
Reject ==
    /\ phase = "loaded"
    /\ ~Valid[chart]
    /\ phase' = "rejected"
    /\ UNCHANGED <<chart, sm, ticks, probe>>

\* the model is valid: code is generated and the host constructs the machine
Generate ==
    /\ phase = "loaded"
    /\ Valid[chart]
    /\ phase' = "running"
    /\ sm' = [g \in Gens |-> IF Built[g][chart] THEN NewMachine(Prog(g))
                             ELSE NoMachine(Prog(g))]
    /\ UNCHANGED <<chart, ticks, probe>>

\* what the host may do between two ticks: the clock advances by one
\* hundredth of a second (the timer chart is also ticked without advancing
\* it), and the charts whose guards read user fields get any setting of them
ClockSteps == IF chart = "timer" THEN {0, 1} ELSE {1}
Stimuli == IF chart = "timer" THEN {{}} ELSE SUBSET Inputs

\* the host advances now by dt, sets the user fields and calls tick()
Tick ==
    /\ phase = "running"
    /\ ticks < TickBound
    /\ \E dt \in ClockSteps, inp \in Stimuli :
         sm' = [g \in Gens |-> tick(Prog(g), sm[g], sm[g].ctx.now + dt, inp)]
    /\ ticks' = ticks + 1
    /\ UNCHANGED <<chart, phase, probe>>

Next == Reject \/ Generate \/ Tick

Spec == Init /\ [][Next]_vars

RunningMachine(g) == phase = "running" /\ sm[g].built

\* ------------------------------------------------------------------------
\* The path helpers of codegen/common.py called on their own
\* ------------------------------------------------------------------------

MaxPathLen == 3
MaxSegs == 2

\* the non-empty paths of at most MaxPathLen segments
Paths == UNION {[1..n -> {root, <<"a">>, <<"b">>}] : n \in 1..MaxPathLen}

\* the relative segment lists x: at most MaxSegs plain names
RelLists == UNION {[1..n -> {<<"a">>, <<"b">>}] : n \in 1..MaxSegs}

\* the sibling-relative spec "x1/x2/..." and the parent-relative "../x1/x2/..."
SiblingSpec(xs) == Join(xs, <<"/">>)
ParentSpec(xs) == <<".", ".", "/">> \o Join(xs, <<"/">>)

\* the paths of the non-root states of a model: root, then state names, one
\* of them containing the separator of flatten_name
StatePaths ==
    UNION {{<<root>> \o q : q \in [1..n -> {<<"a">>, <<"b">>, <<"a", "_", "b">>}]} :
           n \in 1..(MaxPathLen - 1)}

\* the calls observed: resolve_target_path on a path that begins with root
\* and a target spec of each form the function distinguishes, get_lca_index
\* on two paths, flatten_name on the paths of two states of a model, the
\* compiler on the model with any of the defects, collect_decisions on any
\* placement of the decision names, and either generator on a model whose
\* decisions target each other in any way
Probes ==
    {[NoProbe EXCEPT !.fn = "resolve_target_path", !.a = p, !.t = t] :
        p \in {q \in Paths : q[1] = root},
        t \in {NoneTarget, NoStr, <<".", "/">>, <<".">>, <<".", "/", "a">>, <<"a">>,
               <<".", ".", "/", "a">>, <<"/", "a", "/", "b">>, <<"root", "/", "a">>}
              \cup {SiblingSpec(xs) : xs \in RelLists}
              \cup {ParentSpec(xs) : xs \in RelLists}}
    \cup {[NoProbe EXCEPT !.fn = "get_lca_index", !.a = p, !.b = q] : p, q \in Paths}
    \cup {[NoProbe EXCEPT !.fn = "flatten_name", !.a = p, !.b = q] : p, q \in StatePaths}
    \cup {[NoProbe EXCEPT !.fn = "main", !.defects = D] : D \in SUBSET Defects}
    \cup {[NoProbe EXCEPT !.fn = "emit", !.gen = g, !.graph = gr] :
            g \in Gens, gr \in [EmitDecisions -> RuleLists]}
    \cup {[NoProbe EXCEPT !.fn = "collect_decisions", !.locals = l] :
            l \in {f \in [DOMAIN NoLocals -> [has : BOOLEAN, names : SUBSET DecisionNames]] :
                     \A pl \in DOMAIN NoLocals : ~f[pl].has => f[pl].names = {}}}

InitProbe ==
    /\ chart = "selfslash"
    /\ phase = "probe"
    /\ sm = [g \in Gens |-> NoMachine(Prog(g))]
    /\ ticks = 0
    /\ probe \in Probes

ResolveTarget ==
    /\ probe.fn = "resolve_target_path"
    /\ ~probe.done
    /\ probe' = [probe EXCEPT !.done = TRUE, !.path = resolve_target_path(probe.a, probe.t)]
    /\ UNCHANGED <<chart, phase, sm, ticks>>

LcaIndex ==
    /\ probe.fn = "get_lca_index"
    /\ ~probe.done
    /\ probe' = [probe EXCEPT !.done = TRUE, !.index = get_lca_index(probe.a, probe.b)]
    /\ UNCHANGED <<chart, phase, sm, ticks>>

\* recurse visiting two states of a model: my_c_name of each
FlattenNames ==
    /\ probe.fn = "flatten_name"
    /\ ~probe.done
    /\ probe' = [probe EXCEPT !.done = TRUE,
                              !.c_names = <<flatten_name(probe.a, <<"_">>),
                                            flatten_name(probe.b, <<"_">>)>>]
    /\ UNCHANGED <<chart, phase, sm, ticks>>

\* main: validate_model leaves with exit status 1 when it has found errors,
\* before anything is generated
Main ==
    /\ probe.fn = "main"
    /\ ~probe.done
    /\ LET errors == validate_model(Defective(probe.defects))
       IN  probe' = [probe EXCEPT !.done = TRUE, !.errors = errors,
                                  !.exit = IF errors # {} THEN 1 ELSE 0,
                                  !.emitted = (errors = {})]
    /\ UNCHANGED <<chart, phase, sm, ticks>>

\* main on a model whose decisions refer to each other: validate_model,
\* then recurse emitting the transition of S
EmitDecisionChain ==
    /\ probe.fn = "emit"
    /\ ~probe.done
    /\ LET M == [nodes |-> EmitNodes, decisions |-> probe.graph]
           errors == validate_model(M)
           r == emit_depth(probe.gen, M, M.nodes[Pth(<<"S">>)].transitions[1].to, 1,
                           RecursionLimit)
       IN  IF errors # {}
           THEN probe' = [probe EXCEPT !.done = TRUE, !.errors = errors, !.exit = 1]
           ELSE probe' = [probe EXCEPT !.done = TRUE, !.raised = r.raised,
                                       !.level = r.level,
                                       !.exit = IF r.raised THEN 1 ELSE 0,
                                       !.emitted = ~r.raised]
    /\ UNCHANGED <<chart, phase, sm, ticks>>

\* main up to validate_model: collect_decisions alone; a duplicate name is
\* sys.exit(1) before validate_model is called
CollectDecisions ==
    /\ probe.fn = "collect_decisions"
    /\ ~probe.done
    /\ LET r == collect_decisions(probe.locals)
       IN  \* sys.exit(1) inside collect_decisions ends main before validate_model
           \* and the generators; otherwise the model, whose states are sound,
           \* passes validation and is emitted
           probe' = [probe EXCEPT !.done = TRUE, !.merged = r.merged, !.retained = r.retained,
                                  !.exit = r.exit, !.named = r.named,
                                  !.emitted = (r.exit = 0)]
    /\ UNCHANGED <<chart, phase, sm, ticks>>

NextProbe ==
    ResolveTarget \/ LcaIndex \/ FlattenNames \/ Main \/ CollectDecisions \/ EmitDecisionChain

SpecProbe == InitProbe /\ [][NextProbe]_vars

\* the observed call of fn has returned
Returned(fn) == probe.fn = fn /\ probe.done

Rendered(g) == get_state_str(Prog(g), sm[g])

\* ------------------------------------------------------------------------
\* Observations used by the properties
\* ------------------------------------------------------------------------

Ctx(g) == sm[g].ctx
TraceOf(g) == sm[g].ctx.trace

\* the exit and start entries of a record, in order
RECURSIVE ExitStart(_)
ExitStart(tr) ==
    IF tr = << >> THEN << >>
    ELSE (IF tr[1].e \in {"exit", "start"} THEN <<[e |-> tr[1].e, c |-> tr[1].c]>> ELSE << >>)
         \o ExitStart(Tail(tr))

Exited(name_path) == [e |-> "exit", c |-> CName(name_path)]
Started(name_path) == [e |-> "start", c |-> CName(name_path)]

Fired(g, name_path) ==
    \E k \in 1..Len(TraceOf(g)) :
        TraceOf(g)[k].e = "fire" /\ TraceOf(g)[k].c = CName(name_path)

\* child c of the composite-OR state p is the one the run pointer names
ChildActive(G, ctx, p, child) ==
    ctx.ptrs[PtrName(CName(p))] = Fn(p \o <<child>>, "do")

\* region c of the orthogonal state p is active
RegionActive(G, ctx, p, child) ==
    ctx.ptrs[RegionPtrName(CName(p \o <<child>>))] = Fn(p \o <<child>>, "do")

RECURSIVE WellFormedAt(_, _, _)
\* below the active state p every composite-OR has exactly one active child
\* and every orthogonal state has all its regions active
WellFormedAt(G, ctx, p) ==
    LET children == G.nodes[p].states
        idx == 1..Len(children)
    IN  IF IsLeafState(G, p) THEN TRUE
        ELSE IF IsAndState(G, p)
        THEN \A i \in idx : /\ RegionActive(G, ctx, p, children[i])
                            /\ WellFormedAt(G, ctx, p \o <<children[i]>>)
        ELSE /\ Cardinality({i \in idx : ChildActive(G, ctx, p, children[i])}) = 1
             /\ \A i \in idx : ChildActive(G, ctx, p, children[i])
                                  => WellFormedAt(G, ctx, p \o <<children[i]>>)

RECURSIVE ActiveLeaves(_, _, _)
\* the deepest active states below the active state p
ActiveLeaves(G, ctx, p) ==
    LET children == G.nodes[p].states
        idx == 1..Len(children)
        act == IF IsAndState(G, p)
               THEN {i \in idx : RegionActive(G, ctx, p, children[i])}
               ELSE {i \in idx : ChildActive(G, ctx, p, children[i])}
    IN  IF IsLeafState(G, p) THEN {p}
        ELSE UNION {ActiveLeaves(G, ctx, p \o <<children[i]>>) : i \in act}

RECURSIVE DefaultLeaves(_, _)
\* the leaves of the default initial configuration of p
DefaultLeaves(M, p) ==
    LET children == M.nodes[p].states
    IN  IF ~HasStates(M.nodes[p]) THEN {p}
        ELSE IF M.nodes[p].orthogonal
        THEN UNION {DefaultLeaves(M, p \o <<children[i]>>) : i \in 1..Len(children)}
        ELSE DefaultLeaves(M, p \o <<M.nodes[p].initial>>)

\* ------------------------------------------------------------------------
\* Properties
\* ------------------------------------------------------------------------

\* C1: once a transition has fired in a tick (its exit/entry sequence has
\* begun), the rest of the tick executes only the exit and entry code of
\* that sequence (after the transition's own action): no further guard, no
\* region tick, no do code of any frame, and no second sequence.
C1_NothingAfterFire ==
    \A g \in Gens : RunningMachine(g) =>
        \A i, j \in 1..Len(TraceOf(g)) :
            (i < j /\ TraceOf(g)[i].e = "fire") =>
                \/ TraceOf(g)[j].e \in {"exit", "start"}
                \/ j = i + 1 /\ TraceOf(g)[j] = [TraceOf(g)[i] EXCEPT !.e = "action", !.v = TRUE]

\* l1 in the first region of O has fired, with region R declared after it
C1_Witness ==
    /\ chart = "ortho"
    /\ RunningMachine("rust")
    /\ Fired("rust", Pth(<<"O", "L", "l1">>))
    /\ RegionActive(Prog("rust"), Ctx("rust"), Pth(<<"O">>), <<"R">>)

\* a tick that ends with the machine terminated leaves it stopped and
\* rendering FINISHED; if it was terminated before, the tick ran nothing
C2_Step ==
    \A g \in Gens : (RunningMachine(g) /\ sm'[g].ctx.terminated) =>
        /\ ~is_running(sm'[g])
        /\ get_state_str(Prog(g), sm'[g]) = Finished
        /\ sm[g].ctx.terminated => sm'[g].ctx.trace = << >>

\* C2: in a tick in which a termination transition fires the machine stops
\* running and renders FINISHED, and every later tick leaves it so and
\* executes no state code.
C2_TerminationAbsorbing == [][C2_Step]_vars

\* a tick has been made on a machine that had terminated before
C2_Witness ==
    /\ chart = "term"
    /\ RunningMachine("rust")
    /\ Ctx("rust").terminated
    /\ TraceOf("rust") = << >>
    /\ ~is_running(sm["rust"])

\* C3 (as claimed): while the machine runs, every active composite-OR has
\* exactly one active child and every active orthogonal state has all its
\* regions active.
C3_Claim ==
    \A g \in Gens : (RunningMachine(g) /\ is_running(sm[g])) =>
        WellFormedAt(Prog(g), Ctx(g), <<root>>)
\* C4 (as claimed): with s1 carrying an always-true self transition written
\* "./" or ".", the machine is generated, renders /A/s1 after every tick,
\* and every tick runs s1's exit once and then s1's entry once while A is
\* neither exited nor re-entered.
C4_Claim ==
    (chart \in {"selfslash", "selfdot"} /\ phase # "loaded") =>
        /\ phase = "running"
        /\ \A g \in Gens :
              /\ sm[g].built
              /\ Rendered(g) = AbsStr(<<"A", "s1">>)
              /\ ticks >= 1 =>
                    ExitStart(TraceOf(g)) = << Exited(Pth(<<"A", "s1">>)),
                                               Started(Pth(<<"A", "s1">>)) >>

\* the states at or below p
Subtree(G, p) ==
    {q \in DOMAIN G.nodes : Len(q) >= Len(p) /\ SubSeq(q, 1, Len(p)) = p}

\* the pointers written by the start and exit code of the states strictly
\* below p
PtrsBelow(G, p) ==
    UNION {{G.pp[q].run, G.pp[q].exit, G.pp[q].hist} : q \in Subtree(G, p) \ {p}}

FireEvents(tr) == {k \in 1..Len(tr) : tr[k].e = "fire" /\ tr[k].d = 0}

\* the transition behind a fire entry of a record
FiredTransition(G, ev) == G.nodes[G.fns[ev.c]].transitions[ev.i]

\* the limbs (children of an orthogonal state) that hold both src and dst
CommonLimbs(G, src, dst) ==
    {limb \in DOMAIN G.nodes :
        /\ Len(limb) >= 2
        /\ IsAndState(G, DropLast(limb, 1))
        /\ Len(src) > Len(limb) /\ SubSeq(src, 1, Len(limb)) = limb
        /\ Len(dst) > Len(limb) /\ SubSeq(dst, 1, Len(limb)) = limb}

\* what a tick that fired src -> dst inside limb may have touched: only
\* states strictly below the limb are exited or started, and only their
\* pointers and timers change; between siblings the exits stay at or
\* below src and the starts at or below dst
LimbFrame(G, pre, post, src, dst, limb) ==
    /\ \A k \in 1..Len(post.trace) :
          post.trace[k].e \in {"exit", "start"} =>
              G.fns[post.trace[k].c] \in Subtree(G, limb) \ {limb}
    /\ \A n \in DOMAIN pre.ptrs \ PtrsBelow(G, limb) : post.ptrs[n] = pre.ptrs[n]
    /\ \A q \in DOMAIN G.nodes \ (Subtree(G, limb) \ {limb}) :
          post.state_timers[G.ids[q]] = pre.state_timers[G.ids[q]]
    /\ DropLast(src, 1) = DropLast(dst, 1) =>
          /\ \A k \in 1..Len(post.trace) :
                /\ post.trace[k].e = "exit" => G.fns[post.trace[k].c] \in Subtree(G, src)
                /\ post.trace[k].e = "start" => G.fns[post.trace[k].c] \in Subtree(G, dst)
          /\ (IsLeafState(G, src) /\ IsLeafState(G, dst)) =>
                ExitStart(post.trace) = << Exited(src), Started(dst) >>

\* every transition fired by the tick between two states of one limb keeps
\* to the frame of that limb
C5_Step ==
    \A g \in Gens : RunningMachine(g) =>
        LET G == Prog(g)
            post == sm'[g].ctx
        IN  \A k \in FireEvents(post.trace) :
                LET src == G.fns[post.trace[k].c]
                    pf == parse_fork_target(FiredTransition(G, post.trace[k]).to)
                    dst == resolve_target_path(src, pf.base)
                IN  (G.blocks[src][post.trace[k].i].kind = "ordinary"
                        /\ ~pf.hasForks /\ dst \in DOMAIN G.nodes) =>
                    \A limb \in CommonLimbs(G, src, dst) :
                        LimbFrame(G, sm[g].ctx, post, src, dst, limb)

\* C5: a transition whose source and destination lie inside the same limb of
\* an orthogonal state exits only the source and enters only the
\* destination; the limb and the orthogonal state are neither exited nor
\* re-entered, and the pointers and timers of everything outside the limb
\* are left as they were.
C5_SameLimbFrame == [][C5_Step]_vars

\* l1 -> l2 has fired inside limb L while limb R sits in r2, entered in an
\* earlier tick
C5_Witness ==
    /\ chart = "ortho"
    /\ RunningMachine("rust")
    /\ Fired("rust", Pth(<<"O", "L", "l1">>))
    /\ ActiveLeaves(Prog("rust"), Ctx("rust"), <<root>>)
          = {Pth(<<"O", "L", "l2">>), Pth(<<"O", "R", "r2">>)}
    /\ Ctx("rust").state_timers[Prog("rust").ids[Pth(<<"O", "R", "r2">>)]] < Ctx("rust").now

OrthoStr(l, r) == <<"/", "O", "/", "[", "L", "/", l, ",", "R", "/", r, "]">>
OrthoStrSlashed(l, r) ==
    <<"/", "O", "/", "[", "/", "L", "/", l, ",", "/", "R", "/", r, "]">>

OrthoConfig(g, l, r) ==
    /\ chart = "ortho"
    /\ RunningMachine(g)
    /\ is_running(sm[g])
    /\ ActiveLeaves(Prog(g), Ctx(g), <<root>>)
          = {Pth(<<"O", "L", l>>), Pth(<<"O", "R", r>>)}

\* C6: with O orthogonal over L{l1,l2} and R{r1,..}, the configuration
\* (l1, r1) renders as /O/[L/l1,R/r1] and, after l1 -> l2, (l2, r1) renders
\* as /O/[L/l2,R/r1]: region names follow "[" and "," directly.
C6_Rendered ==
    \A g \in Gens : \A l \in {"l1", "l2"} :
        OrthoConfig(g, l, "r1") => Rendered(g) = OrthoStr(l, "r1")

\* C6 (as claimed): the same configurations render as /O/[/L/l1,/R/r1] and
\* /O/[/L/l2,/R/r1].
C6_Claim ==
    \A g \in Gens : \A l \in {"l1", "l2"} :
        OrthoConfig(g, l, "r1") => Rendered(g) = OrthoStrSlashed(l, "r1")

\* the tick in which l1 -> l2 fired, R still in r1
C6_Witness ==
    /\ OrthoConfig("base", "l2", "r1")
    /\ Fired("base", Pth(<<"O", "L", "l1">>))
    /\ Rendered("base") = OrthoStr("l2", "r1")

\* what the tick of g did about the decision reached from S: the first rule
\* whose guard is true decides, and no rule true means no transition
DecisionOutcome(g) ==
    LET tr == TraceOf(g)
        S == Pth(<<"S">>)
        reached == \E k \in 1..Len(tr) :
                      tr[k].e = "guard" /\ tr[k].c = CName(S) /\ tr[k].d = 0 /\ tr[k].v
        rules == Model.decisions[<<"pick">>]
        holds == {r \in 1..Len(rules) : EvalGuard(Ctx(g), 0, rules[r].guard)}
        first == CHOOSE r \in holds : \A n \in holds : r <= n
        dst == resolve_target_path(S, rules[first].to)
    IN  reached =>
            IF holds = {}
            THEN ExitStart(tr) = << >> /\ ActiveLeaves(Prog(g), Ctx(g), <<root>>) = {S}
            ELSE /\ ExitStart(tr) = << Exited(S), Started(dst) >>
                 /\ ActiveLeaves(Prog(g), Ctx(g), <<root>>) = {dst}

\* C7 (as claimed): for RustGenerator and for BaseGenerator alike, a
\* transition to @pick evaluates the rules of pick in order and takes the
\* first whose guard is true.
C7_Claim ==
    (chart = "decision" /\ phase = "running") =>
        \A g \in Gens : sm[g].built /\ DecisionOutcome(g)

\* C8: with now advanced by one hundredth before every tick and the guard
\* time > 0.1 on waiting, the machine renders /waiting after each of the
\* ticks 1..10 and /done from tick 11 on.
C8_Timer ==
    \A g \in Gens :
        (chart = "timer" /\ RunningMachine(g) /\ Ctx(g).now = ticks) =>
            /\ ticks <= TimerThreshold => Rendered(g) = AbsStr(<<"waiting">>)
            /\ ticks > TimerThreshold => Rendered(g) = AbsStr(<<"done">>)

\* the eleventh tick, at 0.11, has just moved the machine to done
C8_Witness ==
    /\ chart = "timer"
    /\ RunningMachine("rust")
    /\ ticks = TimerThreshold + 1
    /\ Ctx("rust").now = ticks
    /\ Fired("rust", Pth(<<"waiting">>))
    /\ Rendered("rust") = AbsStr(<<"done">>)

\* the leaves a fork to base with the given branches implies: the branch
\* target in a named region, the default configuration in the others
ImpliedLeaves(M, base, forks) ==
    LET children == M.nodes[base].states
        named(c) == {k \in 1..Len(forks) : Split(forks[k], "/")[1] = c}
        leaves(c) ==
            IF named(c) = {} THEN DefaultLeaves(M, base \o <<c>>)
            ELSE UNION {DefaultLeaves(M, base \o Split(forks[k], "/")) : k \in named(c)}
    IN  UNION {leaves(children[i]) : i \in 1..Len(children)}

\* C9 (as claimed): after a fork transition to an orthogonal state P has
\* fired, from any source, the active leaves under P are those of the
\* named branches, with the unnamed regions in their default configuration.
C9_Claim ==
    \A g \in Gens : RunningMachine(g) =>
        LET G == Prog(g)
            tr == TraceOf(g)
        IN  \A k \in FireEvents(tr) :
                LET src == G.fns[tr[k].c]
                    pf == parse_fork_target(FiredTransition(G, tr[k]).to)
                    P == resolve_target_path(src, pf.base)
                IN  (G.blocks[src][tr[k].i].kind = "ordinary" /\ pf.hasForks
                        /\ P \in DOMAIN G.nodes /\ IsAndState(G, P)) =>
                    ActiveLeaves(G, Ctx(g), <<root>>) \cap Subtree(G, P)
                        = ImpliedLeaves(Model, P, pf.forks)
\* CGenerator.__init__(self, data): the keyword arguments it accepts
CGeneratorParams == {"data"}

\* the keyword arguments generate_lang passes to the generator of lang
GenerateLangArgs(lang) ==
    IF lang = "c" THEN {"data", "header_name"} ELSE {"data"}

\* a machine of the backend exists: the legacy C generator is constructed
\* only if it accepts the arguments it is called with
BackendBuilt(b) ==
    IF b = "c" THEN GenerateLangArgs(b) \subseteq CGeneratorParams ELSE sm[b].built

Backends == Gens \cup {"c"}

\* C10 (as claimed): for the same model and the same stimuli the machines
\* of the C, Rust and Base (Python) backends exist and go through the same
\* configurations, executed hooks and rendered strings tick by tick.
C10_Claim ==
    phase = "running" =>
        /\ \A b \in Backends : BackendBuilt(b)
        /\ \A g1, g2 \in Gens :
              /\ Rendered(g1) = Rendered(g2)
              /\ ExitStart(TraceOf(g1)) = ExitStart(TraceOf(g2))
              /\ Ctx(g1).ptrs = Ctx(g2).ptrs
\* the entries of a tick record that the transitions of the state named c
\* wrote themselves (decision rules are one level deeper)
OwnEvent(ev, c, kinds) == ev.c = c /\ ev.d = 0 /\ ev.e \in kinds

\* C11: within one run of a state's do the state's transitions are tried in
\* declaration order, and once the guard of one of them has held, no
\* later-declared transition of that state has its guard evaluated or its
\* action executed in that tick.
C11_Claim ==
    \A g \in Gens : RunningMachine(g) =>
        \A k, j \in 1..Len(TraceOf(g)) :
            LET a == TraceOf(g)[k]
                b == TraceOf(g)[j]
            IN  (k < j /\ OwnEvent(a, a.c, {"guard"}) /\ OwnEvent(b, a.c, {"guard", "action"}))
                    => (a.i <= b.i /\ (a.v => b.i = a.i))

\* the names of the states strictly below p
Below(G, p) == {CName(q) : q \in Subtree(G, p) \ {p}}

\* what a do function writes to the tick record
DoKinds == {"hook_do", "guard", "action", "fire", "do"}

\* C12: in a composite-OR state's do, every transition of the composite is
\* evaluated before the active child's do runs, and when one of the
\* composite's transitions fires, no state below the composite runs its do
\* or evaluates a guard in that tick.
C12_OwnTransitionsFirst ==
    \A g \in Gens : RunningMachine(g) =>
        \A p \in {q \in DOMAIN Prog(g).nodes : IsOrState(Prog(g), q)} :
            LET tr == TraceOf(g)
                inner == {k \in 1..Len(tr) : tr[k].c \in Below(Prog(g), p) /\ tr[k].e \in DoKinds}
                own == {k \in 1..Len(tr) : tr[k].c = CName(p) /\ tr[k].e \in {"guard", "action", "fire"}}
            IN  /\ \A k \in own, j \in inner : k < j
                /\ Fired(g, p) => inner = {}

\* the composite C fires while the guard of either of its children holds
C12_Witness ==
    /\ chart = "term"
    /\ RunningMachine("rust")
    /\ Fired("rust", Pth(<<"C">>))
    /\ {1, 2} \subseteq Ctx("rust").inp

\* the entries of a tick record written by the do code of the states of S
DoEvents(tr, S) == {k \in DOMAIN tr : tr[k].c \in {CName(q) : q \in S} /\ tr[k].e \in DoKinds}

\* C13: in an orthogonal state's do, the state's own transitions are
\* evaluated before any region is ticked, the regions are ticked in
\* declaration order, and a region is ticked only while no guard has held so
\* far in the tick (transition_fired is still false) and the orthogonal
\* state has not been left.
C13_RegionTicks ==
    \A g \in Gens : RunningMachine(g) =>
        \A p \in {q \in DOMAIN Prog(g).nodes : IsAndState(Prog(g), q)} :
            LET G == Prog(g)
                tr == TraceOf(g)
                children == G.nodes[p].states
                region(i) == DoEvents(tr, Subtree(G, p \o <<children[i]>>))
                own == {k \in DOMAIN tr : tr[k].c = CName(p) /\ tr[k].e \in {"guard", "action", "fire"}}
            IN  /\ \A k \in own, j \in DoEvents(tr, Subtree(G, p) \ {p}) : k < j
                /\ \A i, j \in 1..Len(children) :
                        i < j => \A k \in region(i), l \in region(j) : k < l
                /\ \A i \in 1..Len(children) : \A k \in region(i) :
                        (tr[k].e = "hook_do" /\ tr[k].c = CName(p \o <<children[i]>>))
                            => \A l \in 1..(k - 1) :
                                   /\ ~(tr[l].e = "guard" /\ tr[l].v)
                                   /\ tr[l].e # "fire"
                                   /\ ~(tr[l].e = "exit" /\ tr[l].c = CName(p))

\* the three regions of P are ticked one after the other in one tick
C13_Witness ==
    /\ chart = "fork"
    /\ RunningMachine("rust")
    /\ LET tr == TraceOf("rust")
           at(c) == {k \in DOMAIN tr : tr[k].e = "hook_do" /\ tr[k].c = CName(Pth(c))}
       IN  /\ \E k \in DOMAIN tr : tr[k].e = "guard" /\ tr[k].c = CName(Pth(<<"P">>)) /\ ~tr[k].v
           /\ at(<<"P", "A">>) # {} /\ at(<<"P", "B">>) # {} /\ at(<<"P", "C">>) # {}

\* the runs of the root do function in a tick record
RootRuns(tr) == {k \in DOMAIN tr : tr[k].e = "hook_do" /\ tr[k].c = CName(<<root>>)}

C14_Step ==
    ticks' = ticks + 1 =>
        \A g \in Gens : RunningMachine(g) =>
            LET tr == sm'[g].ctx.trace
            IN  /\ sm'[g].ctx.transition_fired = (\E k \in DOMAIN tr : tr[k].e = "guard" /\ tr[k].v)
                /\ is_running(sm[g]) =>
                      /\ RootRuns(tr) = {1}
                      /\ is_running(sm'[g]) = ~sm'[g].ctx.terminated
                /\ ~is_running(sm[g]) => (tr = << >> /\ ~is_running(sm'[g]))

\* C14: every tick first resets transition_fired (after the tick the flag
\* tells whether a guard held in this tick, whatever the previous tick left),
\* runs the root do exactly once if the machine is running and clears the
\* root in that tick exactly when terminated is set; a tick on a machine that
\* is not running executes no state code.
C14_Tick == [][C14_Step]_vars

\* a tick in which no guard held, right after a tick that entered a state
C14_Witness ==
    /\ chart = "ortho"
    /\ RunningMachine("rust")
    /\ LET ctx == Ctx("rust")
       IN  /\ ctx.now >= 2
           /\ \E i \in DOMAIN ctx.state_timers : ctx.state_timers[i] = ctx.now - 1
           /\ ~ctx.transition_fired
           /\ RootRuns(ctx.trace) = {1}

\* C15 (as claimed): for every path that begins with root, each of the self
\* target specs "./" and "." resolves to the path itself.
C15_Claim ==
    (Returned("resolve_target_path") /\ probe.t \in {SelfSlashTo, SelfDotTo})
        => probe.path = probe.a

\* the first n segments of a and b exist and are equal elementwise
CommonPrefix(a, b, n) == n <= Len(a) /\ n <= Len(b) /\ \A i \in 1..n : a[i] = b[i]

\* C16: for non-empty paths a and b, get_lca_index(a, b) equals
\* get_lca_index(b, a); the first get_lca_index(a, b) segments of a and b are
\* equal elementwise; for a # b no longer prefix is common; for a = b the
\* result is Len(a) - 1.
C16_Lca ==
    Returned("get_lca_index") =>
        LET a == probe.a
            b == probe.b
            n == probe.index
        IN  /\ n = get_lca_index(b, a)
            /\ n >= 0
            /\ CommonPrefix(a, b, n)
            /\ a # b => \A m \in (n + 1)..Max(Len(a), Len(b)) : ~CommonPrefix(a, b, m)
            /\ a = b => n = Len(a) - 1

\* the function has returned for two identical paths of more than one segment
C16_Witness ==
    /\ Returned("get_lca_index")
    /\ probe.a = probe.b
    /\ Len(probe.a) >= 2

\* the model the compiler was run on
Compiled == Defective(probe.defects)

\* the orthogonal states of M with fewer than two children or with a child
\* that is not a composite-OR state
IrregularOrthogonal(M) ==
    {p \in DOMAIN M.nodes :
        /\ M.nodes[p].orthogonal
        /\ \/ Len(M.nodes[p].states) < 2
           \/ \E i \in 1..Len(M.nodes[p].states) :
                  LET child == M.nodes[p \o <<M.nodes[p].states[i]>>]
                  IN  ~HasStates(child) \/ child.orthogonal}

\* the two defects that make the orthogonal state Q irregular
RegionDefects == {"one_region", "leaf_region"}

\* C17 (as claimed): a model with an orthogonal state that has fewer than
\* two children, or a child that is not a composite-OR region, is rejected by
\* the validator and does not reach the emitter.
C17_Claim ==
    (Returned("main") /\ IrregularOrthogonal(Compiled) # {})
        => (probe.exit # 0 /\ ~probe.emitted)

\* C17 (amended): the validator does not look at the number or the kind of
\* the children of an orthogonal state: a model with such a state gets
\* exactly the errors it gets with regular regions, and with no other defect
\* it is accepted and reaches the emitter.
C17_RegionsUnchecked ==
    (Returned("main") /\ IrregularOrthogonal(Compiled) # {}) =>
        /\ probe.errors = validate_model(Defective(probe.defects \ RegionDefects))
        /\ probe.defects \subseteq RegionDefects => (probe.exit = 0 /\ probe.emitted)

\* the compiler has accepted the model whose orthogonal state Q has the
\* single child c, a leaf
C17_Witness ==
    /\ Returned("main")
    /\ probe.defects = RegionDefects
    /\ IrregularOrthogonal(Compiled) = {Pth(<<"Q">>)}
    /\ probe.emitted

\* the target spec `to`, written in state p, names an existing state (and
\* existing fork branches of a composite)
Resolves(M, p, to) ==
    \/ to \in {NoneTarget, NullStr}
    \/ LET pf == parse_fork_target(to)
           target_path == resolve_target_path(p, pf.base)
       IN  /\ HasState(M, target_path)
           /\ pf.hasForks =>
                 /\ HasStates(resolve_state_data(M, target_path))
                 /\ \A k \in 1..Len(pf.forks) :
                        HasState(M, target_path \o Split(pf.forks[k], "/"))

\* every transition of every state resolves, and so does every rule of
\* every decision a transition refers to
AllTargetsResolve(M) ==
    \A p \in DOMAIN M.nodes : \A i \in 1..Len(M.nodes[p].transitions) :
        LET to == M.nodes[p].transitions[i].to
        IN  IF StartsWith(to, <<"@">>)
            THEN /\ Tail(to) \in DOMAIN M.decisions
                 /\ \A k \in 1..Len(M.decisions[Tail(to)]) :
                        Resolves(M, p, M.decisions[Tail(to)][k].to)
            ELSE Resolves(M, p, to)

\* C18 (as claimed): every model the validator accepts has only resolvable
\* targets, in the transitions of its states and in the rules of its
\* decisions.
C18_Claim ==
    (Returned("main") /\ probe.exit = 0) => AllTargetsResolve(Compiled)

\* the composite-OR states of M (the root among them) that lack 'initial' or
\* name an 'initial' that is not one of their children
InitialBroken(M) ==
    {p \in DOMAIN M.nodes :
        /\ HasStates(M.nodes[p]) /\ ~M.nodes[p].orthogonal
        /\ ~M.nodes[p].hasInitial \/ ~InSeq(M.nodes[p].initial, M.nodes[p].states)}

\* C19: a model in which a composite-OR state, the root included, lacks
\* 'initial' or names an 'initial' that is not one of its children is
\* rejected with an error naming that state, and no missing-initial error is
\* raised for an orthogonal state.
C19_Initial ==
    Returned("main") =>
        LET M == Compiled
        IN  /\ \A p \in InitialBroken(M) :
                  [kind |-> IF M.nodes[p].hasInitial THEN "bad_initial" ELSE "missing_initial",
                   state |-> p, index |-> 0] \in probe.errors
            /\ InitialBroken(M) # {} => (probe.exit # 0 /\ ~probe.emitted)
            /\ \A e \in probe.errors :
                  e.kind \in {"missing_initial", "root_missing_initial"}
                      => ~M.nodes[e.state].orthogonal

\* the only error of a run is the 'initial' of B, while the orthogonal
\* states P and Q declare none
C19_Witness ==
    /\ Returned("main")
    /\ probe.errors = {[kind |-> "bad_initial", state |-> Pth(<<"P", "B">>), index |-> 0]}
    /\ ~Compiled.nodes[Pth(<<"P">>)].hasInitial
    /\ probe.exit = 1

\* the error each defect below the root must produce
ErrorOf ==
    [d \in {"no_initial", "bad_initial", "bad_target", "no_decision", "fork_leaf", "no_branch"} |->
        CASE d = "no_initial" ->
                [kind |-> "missing_initial", state |-> Pth(<<"P", "A">>), index |-> 0]
          [] d = "bad_initial" ->
                [kind |-> "bad_initial", state |-> Pth(<<"P", "B">>), index |-> 0]
          [] d = "bad_target" ->
                [kind |-> "no_target", state |-> Pth(<<"M", "m2">>), index |-> 2]
          [] d = "no_decision" ->
                [kind |-> "no_decision", state |-> Pth(<<"M", "m1">>), index |-> 2]
          [] d = "fork_leaf" ->
                [kind |-> "fork_not_composite", state |-> Pth(<<"P", "A", "a2">>), index |-> 0]
          [] d = "no_branch" ->
                [kind |-> "no_fork_branch", state |-> Pth(<<"X">>), index |-> 0]]

\* C20: one run of the validator reports the error of each of the k
\* independent defects of the model, the process then exits non-zero and
\* nothing is generated; an unresolved-target error names the state and the
\* 1-based index of a transition of that state whose target does not exist.
C20_AllReported ==
    Returned("main") =>
        LET M == Compiled
            found == probe.defects \cap DOMAIN ErrorOf
        IN  /\ \A d \in found : ErrorOf[d] \in probe.errors
            /\ Cardinality(probe.errors) >= Cardinality(found)
            /\ probe.errors # {} => (probe.exit # 0 /\ ~probe.emitted)
            /\ \A e \in probe.errors : e.kind = "no_target" =>
                  /\ e.state \in DOMAIN M.nodes
                  /\ e.index \in 1..Len(M.nodes[e.state].transitions)
                  /\ ~Resolves(M, e.state, M.nodes[e.state].transitions[e.index].to)

\* a run on the model with six defects in six states has reported six errors
C20_Witness ==
    /\ Returned("main")
    /\ probe.defects = DOMAIN ErrorOf
    /\ Cardinality(probe.errors) = 6
    /\ probe.exit = 1

\* the places of the observed call that define the decision name n
Defining(n) == {pl \in DOMAIN probe.locals : n \in probe.locals[pl].names}

\* some decision name is defined in two places
Duplicated == \E n \in DecisionNames : Cardinality(Defining(n)) > 1

\* what holds of collect_decisions whatever is left in the states
C21_Merged ==
    /\ Duplicated =>
          /\ probe.exit = 1 /\ ~probe.emitted /\ probe.errors = {}
          /\ probe.named # "root"
          /\ \E n \in probe.locals[probe.named].names : Cardinality(Defining(n)) > 1
    /\ ~Duplicated =>
          /\ probe.exit = 0 /\ probe.emitted
          /\ \A e \in probe.merged : e[2] \in Defining(e[1])
          /\ \A n \in DecisionNames : \A pl \in Defining(n) : <<n, pl>> \in probe.merged

\* C21 (as claimed): after flattening the global namespace holds every
\* top-level and every state-local decision under its own name and no state
\* retains a local `decisions` map; a name defined in two places aborts the
\* compilation with a non-zero exit naming the state, before validation.
C21_Claim ==
    Returned("collect_decisions") =>
        /\ C21_Merged
        /\ ~Duplicated => probe.retained = {}

\* C21 (amended): as claimed, except that the states that retain a local
\* `decisions` map are exactly those whose map is empty.
C21_Flattened ==
    Returned("collect_decisions") =>
        /\ C21_Merged
        /\ ~Duplicated =>
              probe.retained = {pl \in DOMAIN probe.locals :
                                  pl # "root" /\ probe.locals[pl].has /\ probe.locals[pl].names = {}}

\* decisions of the top level and of a, two levels down, have been merged,
\* and B keeps its empty map
C21_Witness ==
    /\ Returned("collect_decisions")
    /\ probe.merged = {<<"p", "a">>, <<"q", "root">>}
    /\ probe.locals["A"].names = {}
    /\ probe.retained = {"B"}

RECURSIVE ActiveStates(_, _, _)
\* the active states at or below the active state p
ActiveStates(G, ctx, p) ==
    LET children == G.nodes[p].states
        idx == 1..Len(children)
        act == IF IsAndState(G, p)
               THEN {i \in idx : RegionActive(G, ctx, p, children[i])}
               ELSE {i \in idx : ChildActive(G, ctx, p, children[i])}
    IN  {p} \cup (IF IsLeafState(G, p) THEN {}
                  ELSE UNION {ActiveStates(G, ctx, p \o <<children[i]>>) : i \in act})

\* the run and exit pointers of the context (the history pointers apart)
RunExitPtrs(G) == G.ptrs \ {HistName(CName(p)) : p \in DOMAIN G.nodes}

\* the emitted termination blocks call exit functions only and set the
\* terminated flag after the last of them
TerminatesLast(b) ==
    b.kind = "termination" =>
        /\ b.ops[Len(b.ops)] = TerminateOp
        /\ \A k \in 1..(Len(b.ops) - 1) : b.ops[k].op = "call" /\ b.ops[k].fn.k = "exit"

RECURSIVE AllTerminateLast(_)
AllTerminateLast(b) ==
    TerminatesLast(b) /\ \A k \in 1..Len(b.rules) : AllTerminateLast(b.rules[k])

\* the tick in which the machine terminates
C22_Step ==
    \A g \in Gens : (RunningMachine(g) /\ ~sm[g].ctx.terminated /\ sm'[g].ctx.terminated) =>
        LET G == Prog(g)
            tr == sm'[g].ctx.trace
            ex == {k \in DOMAIN tr : tr[k].e = "exit"}
            fired == {k \in DOMAIN tr : tr[k].e = "fire"}
        IN  /\ \A q \in DOMAIN G.blocks : \A k \in DOMAIN G.blocks[q] :
                  AllTerminateLast(G.blocks[q][k])
            /\ ~sm'[g].ctx.err
            /\ {tr[k].c : k \in ex} = {CName(q) : q \in ActiveStates(G, sm[g].ctx, <<root>>)}
            /\ \A j, k \in ex : j # k => tr[j].c # tr[k].c
            /\ \A j, k \in ex : j < k => ~StartsWith(G.fns[tr[k].c], G.fns[tr[j].c])
            /\ \A k \in ex : tr[k].c = CName(<<root>>) <=> k = Len(tr)
            /\ \A k \in ex : \A f \in fired : f < k
            /\ \A k \in DOMAIN tr : tr[k].e # "start"
            /\ \A n \in RunExitPtrs(G) : sm'[g].ctx.ptrs[n] = NoFn

ExitsDeepestFirst(G, tr, S) ==
    LET ex == {k \in DOMAIN tr : tr[k].e = "exit"}
    IN  /\ {tr[k].c : k \in ex} = {CName(q) : q \in S}
        /\ \A j, k \in ex : j # k => tr[j].c # tr[k].c
        /\ \A j, k \in ex : j < k => ~StartsWith(G.fns[tr[k].c], G.fns[tr[j].c])

\* q is active under its parent (a region of an orthogonal state, or the
\* child a composite-OR points at)
ActiveUnderParent(G, ctx, q) ==
    IF IsAndState(G, DropLast(q, 1)) THEN RegionActive(G, ctx, DropLast(q, 1), q[Len(q)])
    ELSE ChildActive(G, ctx, DropLast(q, 1), q[Len(q)])

\* per chart, the transitions that lead from one limb of an orthogonal state
\* to a destination strictly inside another, composite-OR, limb Lt: source,
\* index, destination, Lt, the states strictly below Lt and their pointers
CrossLimbInto ==
    [n \in ChartNames |->
        LET M == Models[n]
            rec(src, i) ==
                LET pf == parse_fork_target(M.nodes[src].transitions[i].to)
                    dst == resolve_target_path(src, pf.base)
                    lca == get_lca_index(src, dst)
                    Lt == Prefix(dst, lca + 1)
                IN  [src |-> src, i |-> i, dst |-> dst, Lt |-> Lt,
                     below |-> Subtree(M, Lt) \ {Lt},
                     ptrs |-> IF Lt \in DOMAIN M.nodes THEN PtrsBelow(Programs["base"][n], Lt)
                              ELSE {},
                     hit |-> /\ dst \in DOMAIN M.nodes
                             /\ IsCrossLimb(M, src, dst, lca)
                             /\ IsOrState(M, Lt) /\ Len(dst) > Len(Lt)]
            all == UNION {{rec(src, i) : i \in {k \in DOMAIN M.nodes[src].transitions :
                                ~IsTermination(M.nodes[src].transitions[k].to)
                                /\ ~StartsWith(M.nodes[src].transitions[k].to, <<"@">>)}} :
                          src \in DOMAIN M.nodes \ {<<root>>}}
        IN  {x \in all : x.hit}]

\* every such transition fired by the tick
C23_Step ==
    \A g \in Gens : RunningMachine(g) =>
        LET G == Prog(g)
            pre == sm[g].ctx
            post == sm'[g].ctx
        IN  \A k \in FireEvents(post.trace) : \A x \in CrossLimbInto[chart] :
                (CName(x.src) = post.trace[k].c /\ x.i = post.trace[k].i) =>
                    /\ ~post.err
                    /\ ExitsDeepestFirst(G, post.trace, ActiveStates(G, pre, x.Lt) \ {x.Lt})
                    /\ \A j \in DOMAIN post.trace :
                          post.trace[j].e = "start" => G.fns[post.trace[j].c] \in x.below
                    /\ \A n \in DOMAIN pre.ptrs \ x.ptrs : post.ptrs[n] = pre.ptrs[n]
                    /\ \A q \in DOMAIN G.nodes \ x.below :
                          post.state_timers[G.ids[q]] = pre.state_timers[G.ids[q]]
                    /\ \A n \in (Len(x.Lt) + 1)..Len(x.dst) :
                          ActiveUnderParent(G, post, Prefix(x.dst, n))

\* C23: a cross-limb transition whose LCA is an orthogonal state O, from
\* limb Ls to a destination strictly inside another composite-OR limb Lt,
\* executes only the exit code of Lt's active descendant chain; Lt, O, the
\* source and every other state of Ls and of the remaining limbs are neither
\* exited nor re-entered, and afterwards the destination is active under Lt.
C23_CrossLimb == [][C23_Step]_vars

\* r2 in limb R has fired to /O/L/l2 while limb L was at l1
C23_Witness ==
    /\ chart = "ortho"
    /\ RunningMachine("rust")
    /\ Fired("rust", Pth(<<"O", "R", "r2">>))
    /\ ExitStart(TraceOf("rust")) = << Exited(Pth(<<"O", "L", "l1">>)),
                                      Started(Pth(<<"O", "L", "l2">>)) >>
    /\ OrthoConfig("rust", "l2", "r2")

\* per chart, the fork-less transitions from a source that is not under an
\* orthogonal state O to a destination strictly inside one region of O
IntoRegion ==
    [n \in ChartNames |->
        LET M == Models[n]
            recs(src, i) ==
                LET pf == parse_fork_target(M.nodes[src].transitions[i].to)
                    dst == resolve_target_path(src, pf.base)
                IN  {[src |-> src, i |-> i, dst |-> dst, O |-> O] :
                        O \in {q \in DOMAIN M.nodes :
                                 /\ ~pf.hasForks /\ dst \in DOMAIN M.nodes
                                 /\ IsAndState(M, q)
                                 /\ Len(dst) > Len(q) + 1 /\ Prefix(dst, Len(q)) = q
                                 /\ src \notin Subtree(M, q)}}
        IN  UNION {UNION {recs(src, i) : i \in {k \in DOMAIN M.nodes[src].transitions :
                                ~IsTermination(M.nodes[src].transitions[k].to)
                                /\ ~StartsWith(M.nodes[src].transitions[k].to, <<"@">>)}} :
                   src \in DOMAIN M.nodes \ {<<root>>}}]

\* C24 (as claimed): after a fork-less transition from a source that is not
\* under the orthogonal state O to a destination D strictly inside one
\* region of O, O is active, D has been entered fully, and every other
\* region of O is active in its default initial configuration.
C24_Claim ==
    \A g \in Gens : RunningMachine(g) =>
        LET G == Prog(g)
            tr == TraceOf(g)
            leaves == ActiveLeaves(G, Ctx(g), <<root>>)
        IN  \A k \in FireEvents(tr) : \A x \in IntoRegion[chart] :
                (CName(x.src) = tr[k].c /\ x.i = tr[k].i) =>
                    /\ \A n \in 2..Len(x.O) : ActiveUnderParent(G, Ctx(g), Prefix(x.O, n))
                    /\ leaves \cap Subtree(G, x.dst) = DefaultLeaves(Model, x.dst)
                    /\ \A i \in DOMAIN G.nodes[x.O].states :
                          LET region == x.O \o <<G.nodes[x.O].states[i]>>
                          IN  /\ RegionActive(G, Ctx(g), x.O, G.nodes[x.O].states[i])
                              /\ region # Prefix(x.dst, Len(region)) =>
                                    leaves \cap Subtree(G, region) = DefaultLeaves(Model, region)

\* per chart, the fork-less transitions of a composite-OR source S to S
\* itself or to a state below S
WithinSource ==
    [n \in ChartNames |->
        LET M == Models[n]
            rec(src, i) ==
                LET pf == parse_fork_target(M.nodes[src].transitions[i].to)
                    dst == resolve_target_path(src, pf.base)
                IN  [src |-> src, i |-> i, dst |-> dst,
                     hit |-> ~pf.hasForks /\ IsOrState(M, src) /\ dst \in Subtree(M, src)]
            all == UNION {{rec(src, i) : i \in {k \in DOMAIN M.nodes[src].transitions :
                                ~IsTermination(M.nodes[src].transitions[k].to)
                                /\ ~StartsWith(M.nodes[src].transitions[k].to, <<"@">>)}} :
                          src \in DOMAIN M.nodes \ {<<root>>}}
        IN  {x \in all : x.hit}]

\* every such transition fired by the tick
C25_Step ==
    \A g \in Gens : RunningMachine(g) =>
        LET G == Prog(g)
            pre == sm[g].ctx
            post == sm'[g].ctx
            tr == post.trace
        IN  \A k \in FireEvents(tr) : \A x \in WithinSource[chart] :
                (CName(x.src) = tr[k].c /\ x.i = tr[k].i) =>
                    /\ ~post.err
                    /\ \A j, l \in DOMAIN tr : (tr[j].e = "exit" /\ tr[l].e = "start") => j < l
                    /\ \E l \in DOMAIN tr : tr[l].e = "start"
                    /\ x.dst = x.src =>
                          ExitsDeepestFirst(G, tr, ActiveStates(G, pre, x.src))
                    /\ x.dst # x.src =>
                          /\ G.blocks[x.src][x.i].ops[1] = PtrOp(PtrExitName(CName(x.src)))
                          /\ ExitsDeepestFirst(G, tr, ActiveStates(G, pre, x.src) \ {x.src})
                          /\ \A j \in DOMAIN tr :
                                tr[j].e \in {"exit", "start"} => tr[j].c # CName(x.src)
                          /\ post.state_timers[G.ids[x.src]] = pre.state_timers[G.ids[x.src]]
                          /\ ActiveUnderParent(G, post, x.src)

\* C25: a transition of a composite-OR state S to S itself or to a state
\* below S tears down the whole active descendant chain of S, deepest
\* first, before any entry code runs; when the destination lies strictly
\* below S the teardown goes through S's stored exit pointer and S is
\* neither exited nor started again, so that its timer is not reset.
C25_Container == [][C25_Step]_vars

\* S has fired to its child s2 while M/m1 was active: m1 and M were exited,
\* then s2 entered, and the timer of S still holds the time of construction
C25_Witness ==
    /\ chart = "container"
    /\ RunningMachine("rust")
    /\ Fired("rust", Pth(<<"S">>))
    /\ ExitStart(TraceOf("rust")) = << Exited(Pth(<<"S", "M", "m1">>)), Exited(Pth(<<"S", "M">>)),
                                      Started(Pth(<<"S", "s2">>)) >>
    /\ Ctx("rust").now > 0
    /\ Ctx("rust").state_timers[Prog("rust").ids[Pth(<<"S">>)]] = 0

\* the value of H's history pointer just before entry k of the record tr of
\* a tick that began with the pointer at h0, if every start of a child of H
\* writes it: the entry function of the child started last
HistAt(G, tr, H, h0, k) ==
    LET S == {j \in 1..(k - 1) :
                /\ tr[j].e = "start"
                /\ Len(G.fns[tr[j].c]) = Len(H) + 1
                /\ Prefix(G.fns[tr[j].c], Len(H)) = H}
    IN  IF S = {} THEN h0 ELSE Fn(G.fns[tr[MaxOf(S)].c], "entry")

\* construction and every tick, for every composite-OR state H
C26_Step ==
    \A g \in Gens : sm'[g].built =>
        LET G == Prog(g)
            post == sm'[g].ctx
            tr == post.trace
        IN  \A H \in {q \in DOMAIN G.nodes : IsOrState(G, q)} :
                LET hist == HistName(CName(H))
                    h0 == sm[g].ctx.ptrs[hist]
                    full == {k \in DOMAIN tr : tr[k] = Ev("start", H, 0, TRUE)}
                    expected(k) ==
                        IF G.nodes[H].history /\ HistAt(G, tr, H, h0, k) # NoFn
                        THEN G.fns[HistAt(G, tr, H, h0, k).c]
                        ELSE H \o <<G.nodes[H].initial>>
                IN  /\ ~post.err
                    /\ post.ptrs[hist] = IF G.nodes[H].history
                                         THEN HistAt(G, tr, H, h0, Len(tr) + 1)
                                         ELSE NoFn
                    /\ \A k \in full :
                          k < Len(tr) /\ tr[k + 1] = Ev("start", expected(k), 0, TRUE)

\* C26: the history pointer of a composite-OR state H with history always
\* names the child of H that was started last (it is null until a child is
\* started), and whenever H is entered through its entry function the child
\* entered next is that child, or the initial child if none was ever
\* started; without history the initial child is always the one entered and
\* the history pointer is never written.
C26_History == [][C26_Step]_vars

\* O has been re-entered by default after H was left at h2: the entry
\* function of H resumes h2
C26_Witness ==
    /\ chart = "history"
    /\ RunningMachine("rust")
    /\ Fired("rust", Pth(<<"X">>))
    /\ \E k \in 1..(Len(TraceOf("rust")) - 1) :
          /\ TraceOf("rust")[k] = Ev("start", Pth(<<"O", "H">>), 0, TRUE)
          /\ TraceOf("rust")[k + 1] = Ev("start", Pth(<<"O", "H", "h2">>), 0, TRUE)

\* per chart, the transitions with a fork-less path target that are not
\* cross-limb: source, index, destination, LCA, and whether the emitter
\* rewrites the target as an implicit fork (and to which base)
OrdinaryBlocks ==
    [n \in ChartNames |->
        LET M == Models[n]
            rec(src, i) ==
                LET pf == parse_fork_target(M.nodes[src].transitions[i].to)
                    dst == resolve_target_path(src, pf.base)
                    lca == get_lca_index(src, dst)
                    rw == ImplicitFork(M, src, dst, FALSE, << >>)
                IN  [src |-> src, i |-> i, dst |-> dst, lca |-> lca,
                     rewritten |-> rw.hasForks, base |-> rw.target_path,
                     hit |-> /\ ~pf.hasForks /\ dst \in DOMAIN M.nodes
                             /\ ~IsCrossLimb(M, src, dst, lca)]
            all == UNION {{rec(src, i) : i \in {k \in DOMAIN M.nodes[src].transitions :
                                ~IsTermination(M.nodes[src].transitions[k].to)
                                /\ ~StartsWith(M.nodes[src].transitions[k].to, <<"@">>)}} :
                          src \in DOMAIN M.nodes \ {<<root>>}}
        IN  {x \in all : x.hit}]

IsExitCall(o) == o.op = "call" /\ o.fn.k = "exit"
IsEntryCall(o) == o.op = "call" /\ o.fn.k \in {"start", "entry"}

\* the states named by the exit calls and by the entry calls, in order
ExitCalls(ops) ==
    LET sel == SelectSeq(ops, IsExitCall) IN [k \in DOMAIN sel |-> sel[k].fn.c]
EntryCalls(ops) ==
    LET sel == SelectSeq(ops, IsEntryCall) IN [k \in DOMAIN sel |-> sel[k].fn.c]

\* no exit (called by name or through a pointer) after an entry call
ExitsPrecedeEntries(ops) ==
    \A j, k \in DOMAIN ops :
        (IsEntryCall(ops[j]) /\ (IsExitCall(ops[k]) \/ ops[k].op = "callptr")) => k < j

\* src[lca..len(src)) deepest first, and dst from just below the LCA down to
\* dst, with the LCA lowered by one when it equals len(dst)
SourceChain(src, lca) ==
    [k \in 1..(Len(src) - lca) |-> CName(Prefix(src, Len(src) - k + 1))]
DestinationChain(dst, lca) ==
    LET l == IF lca = Len(dst) THEN lca - 1 ELSE lca
    IN  [k \in 1..(Len(dst) - l) |-> CName(Prefix(dst, l + k))]

\* the block emitted for x calls exactly its source chain and its
\* destination chain
ExactChains(G, x) ==
    /\ ExitCalls(G.blocks[x.src][x.i].ops) = SourceChain(x.src, x.lca)
    /\ EntryCalls(G.blocks[x.src][x.i].ops) = DestinationChain(x.dst, x.lca)

PathBlocks ==
    [n \in ChartNames |->
        LET M == Models[n]
            rec(src, i) ==
                LET pf == parse_fork_target(M.nodes[src].transitions[i].to)
                    dst == resolve_target_path(src, pf.base)
                    lca == get_lca_index(src, dst)
                    cross == IsCrossLimb(M, src, dst, lca)
                    rw == ImplicitFork(M, src, dst, pf.hasForks, pf.forks)
                IN  [src |-> src, i |-> i, dst |-> dst,
                     forked |-> IF cross THEN pf.hasForks ELSE rw.hasForks,
                     base |-> IF cross THEN dst ELSE rw.target_path,
                     hit |-> dst \in DOMAIN M.nodes]
            all == UNION {{rec(src, i) : i \in {k \in DOMAIN M.nodes[src].transitions :
                                ~IsTermination(M.nodes[src].transitions[k].to)
                                /\ ~StartsWith(M.nodes[src].transitions[k].to, <<"@">>)}} :
                          src \in DOMAIN M.nodes \ {<<root>>}}
        IN  {x \in all : x.hit}]

\* the emitted entry calls of x: start for every state but the last of a
\* fork-less sequence; start for the base of a fork, and at most one entry
\* call per region of the base
EntryForms(G, x) ==
    LET sel == SelectSeq(G.blocks[x.src][x.i].ops, IsEntryCall)
        regions == G.nodes[x.base].states
    IN  /\ sel # << >>
        /\ ~x.forked =>
              \A k \in DOMAIN sel : sel[k].fn.k = IF k = Len(sel) THEN "entry" ELSE "start"
        /\ x.forked =>
              /\ \E k \in DOMAIN sel : sel[k].fn.c = CName(x.base)
              /\ \A k \in DOMAIN sel : sel[k].fn.c = CName(x.base) => sel[k].fn.k = "start"
              /\ \A i \in DOMAIN regions :
                    Cardinality({k \in DOMAIN sel :
                                   sel[k].fn.c = CName(x.base \o <<regions[i]>>)}) <= 1

\* what the record of a tick that fired x shows: no state is started
\* twice; in a fork-less sequence the states above the destination are
\* started by the block and the destination and what lies below it through
\* entry functions; the base of a fork is started by the block
EntryRecord(G, tr, x) ==
    LET st == {k \in DOMAIN tr : tr[k].e = "start"}
    IN  /\ \A j, k \in st : j # k => tr[j].c # tr[k].c
        /\ ~x.forked => \A k \in st : tr[k].v <=> G.fns[tr[k].c] \in Subtree(G, x.dst)
        /\ x.forked => \A k \in st : tr[k].c = CName(x.base) => ~tr[k].v

\* C28: the entry calls of a fork-less entry sequence are starts except the
\* last, which is the full entry; in a fork entry sequence the fork base is
\* entered with start too, so that no region of the base is entered both by
\* a branch and by the base's default descent.
C28_EntryForms ==
    \A g \in Gens : RunningMachine(g) =>
        /\ \A x \in PathBlocks[chart] : EntryForms(Prog(g), x)
        /\ \A k \in FireEvents(TraceOf(g)) : \A x \in PathBlocks[chart] :
              (CName(x.src) = TraceOf(g)[k].c /\ x.i = TraceOf(g)[k].i) =>
                  EntryRecord(Prog(g), TraceOf(g), x)

\* X has fired its fork into P: P, A and B were started, a2 and b2 entered,
\* and region C entered by default
C28_Witness ==
    /\ chart = "fork"
    /\ RunningMachine("rust")
    /\ Fired("rust", Pth(<<"X">>))
    /\ \E k \in DOMAIN TraceOf("rust") : TraceOf("rust")[k] = Ev("start", Pth(<<"P">>), 0, FALSE)
    /\ \E k \in DOMAIN TraceOf("rust") :
          TraceOf("rust")[k] = Ev("start", Pth(<<"P", "B", "b2">>), 0, TRUE)
    /\ \E k \in DOMAIN TraceOf("rust") :
          TraceOf("rust")[k] = Ev("start", Pth(<<"P", "C">>), 0, TRUE)

\* the block behind a guard, fire or action entry of a record: transition i
\* of the state, or rule i of the decision it leads to
BlockOf(G, ev) ==
    LET own == G.blocks[G.fns[ev.c]]
    IN  IF ev.d = 0 THEN own[ev.i]
        ELSE LET outer == CHOOSE b \in {own[k] : k \in DOMAIN own} :
                              b.kind = "decision" /\ ev.i \in DOMAIN b.rules
             IN  outer.rules[ev.i]

\* C29: in every fired transition (termination, ordinary, fork or decision
\* rule) the transition hook runs first, with transition_fired still as the
\* tick had it; then transition_fired is set; then the action runs, with the
\* flag set and before any exit code (the source is still active); then all
\* exit code runs, then all entry code.
C29_FiringOrder ==
    \A g \in Gens : RunningMachine(g) =>
        LET G == Prog(g)
            tr == TraceOf(g)
        IN  \A k \in DOMAIN tr :
                tr[k].e = "fire" =>
                    LET first == IF BlockOf(G, tr[k]).action THEN k + 2 ELSE k + 1
                    IN  /\ k > 1 /\ tr[k - 1] = [tr[k] EXCEPT !.e = "guard", !.v = TRUE]
                        /\ tr[k].v <=> \E j \in 1..(k - 2) : tr[j].e = "guard" /\ tr[j].v
                        /\ Ctx(g).transition_fired
                        /\ BlockOf(G, tr[k]).action =>
                              k < Len(tr) /\ tr[k + 1] = [tr[k] EXCEPT !.e = "action", !.v = TRUE]
                        /\ \A j \in DOMAIN tr : tr[j].e \in {"exit", "start"} => j >= first
                        /\ \A j \in first..Len(tr) : tr[j].e \in {"exit", "start"}
                        /\ \A j, l \in first..Len(tr) :
                              (tr[j].e = "exit" /\ tr[l].e = "start") => j < l

\* X has fired its fork into the regions of O: hook, action with the flag
\* set, exit of X, then the entries
C29_Witness ==
    /\ chart = "history"
    /\ RunningMachine("rust")
    /\ \E k \in 1..(Len(TraceOf("rust")) - 3) :
          /\ TraceOf("rust")[k] = EvD("fire", Pth(<<"X">>), 3, 0, FALSE)
          /\ TraceOf("rust")[k + 1] = EvD("action", Pth(<<"X">>), 3, 0, TRUE)
          /\ TraceOf("rust")[k + 2] = Ev("exit", Pth(<<"X">>), 0, TRUE)
          /\ TraceOf("rust")[k + 3] = Ev("start", Pth(<<"O">>), 0, FALSE)

\* C30 (as claimed): resolve_target_path, given a current path that begins
\* with root and a non-empty target string of one of the forms it accepts
\* (absolute, legacy root/..., ./x, ../x, sibling), returns a path whose
\* first segment is root; in particular for ../x in a direct child of root.
C30_Claim ==
    (Returned("resolve_target_path") /\ probe.t \notin {NoneTarget, NoStr}) =>
        (probe.path # <<>> /\ probe.path[1] = root)

\* C31: for every path p of at least three segments and every relative
\* segment list x, resolve_target_path(p, "../" + x) is p without its last
\* two segments followed by the segments of x, and the sibling-relative spec
\* x resolves to p without its last segment followed by the segments of x.
C31_Relative ==
    (Returned("resolve_target_path") /\ Len(probe.a) >= 3) =>
        \A xs \in RelLists :
            /\ probe.t = ParentSpec(xs) =>
                  probe.path = SubSeq(probe.a, 1, Len(probe.a) - 2) \o xs
            /\ probe.t = SiblingSpec(xs) =>
                  probe.path = SubSeq(probe.a, 1, Len(probe.a) - 1) \o xs

\* ../a/b asked in root/a/b climbs to root and gives root/a/b again
C31_Witness ==
    /\ Returned("resolve_target_path")
    /\ probe.a = <<root, <<"a">>, <<"b">>>>
    /\ probe.t = ParentSpec(<<<<"a">>, <<"b">>>>)
    /\ probe.path = <<root, <<"a">>, <<"b">>>>

\* C32 (as claimed): distinct state paths of a model receive distinct
\* flattened names (hence distinct function, pointer and predicate names),
\* also when state names contain the separator "_".
C32_Claim ==
    (Returned("flatten_name") /\ probe.a # probe.b) => probe.c_names[1] # probe.c_names[2]

\* the decisions a rule of decision d targets
RuleRefs(graph, d) ==
    {e \in EmitDecisions : \E k \in 1..Len(graph[d]) : graph[d][k].to = <<"@">> \o e}

\* the chains of references that start at the decision p of the transition
DecisionChains(graph, n) ==
    {s \in UNION {[1..m -> EmitDecisions] : m \in 1..n} :
        /\ s[1] = <<"p">>
        /\ \A i \in 1..(Len(s) - 1) : s[i + 1] \in RuleRefs(graph, s[i])}

\* a decision reachable from the transition targets itself, directly or not
CyclicFrom(graph) ==
    \E s \in DecisionChains(graph, Cardinality(EmitDecisions) + 1) :
        \E i, j \in 1..Len(s) : i < j /\ s[i] = s[j]

LongestChain(graph) ==
    MaxOf({Len(s) : s \in DecisionChains(graph, Cardinality(EmitDecisions))})

\* C33 (as claimed): a model whose decisions refer to each other passes
\* normalization and validation; emission of the transition completes when
\* the decisions reachable from it are acyclic, nested as deep as the
\* longest chain of decisions, and does not complete when a decision
\* reachable from it targets itself directly or indirectly.
C33_Claim ==
    Returned("emit") =>
        /\ probe.errors = {}
        /\ ~CyclicFrom(probe.graph) =>
              (probe.emitted /\ probe.level = 1 + LongestChain(probe.graph))
        /\ CyclicFrom(probe.graph) => (probe.raised /\ ~probe.emitted)

\* the flattened names of the states the pointers make active
LiveNames(g, m) ==
    IF m.built /\ m.root
    THEN {CName(p) : p \in ActiveStates(Prog(g), m.ctx, <<root>>)}
    ELSE {}

RECURSIVE StartExitReplay(_, _, _)
\* the record of a tick replayed from entry k on the set `live` of the
\* states whose start code ran last: start code must find its state not
\* live, exit code must find it live
StartExitReplay(tr, k, live) ==
    IF k > Len(tr) THEN [ok |-> TRUE, live |-> live]
    ELSE IF tr[k].e = "start"
    THEN IF tr[k].c \in live THEN [ok |-> FALSE, live |-> live]
         ELSE StartExitReplay(tr, k + 1, live \cup {tr[k].c})
    ELSE IF tr[k].e = "exit"
    THEN IF tr[k].c \notin live THEN [ok |-> FALSE, live |-> live]
         ELSE StartExitReplay(tr, k + 1, live \ {tr[k].c})
    ELSE StartExitReplay(tr, k + 1, live)

\* construction or one tick: from the active states before it, start and
\* exit code alternate per state, and the states left started-and-not-exited
\* are exactly the active states after it
C34_Step ==
    \A g \in Gens : (sm'[g].built /\ sm'[g] # sm[g]) =>
        LET r == StartExitReplay(sm'[g].ctx.trace, 1, LiveNames(g, sm[g]))
        IN  r.ok /\ r.live = LiveNames(g, sm'[g])

\* C34 (as claimed): over any run of the generated machine the start code
\* and the exit code of every state strictly alternate, beginning with
\* start: no state is started again while active without its exit code in
\* between, and no active state is deactivated or replaced without its exit
\* code running; transitions to an ancestor, into the enclosing orthogonal
\* state and across limbs included.
C34_Claim == [][C34_Step]_vars

\* C35 (as claimed): at the end of a tick transition_fired is true only if
\* the exit or entry code of some state ran in that tick; a transition to a
\* decision whose guard holds while no rule of the decision has a true guard
\* leaves the flag false and does not run the action of the transition.
C35_Claim ==
    \A g \in Gens : RunningMachine(g) =>
        LET G == Prog(g)
            tr == TraceOf(g)
            moved == \E k \in DOMAIN tr : tr[k].e \in {"exit", "start"}
        IN  /\ Ctx(g).transition_fired => moved
            /\ \A k \in DOMAIN tr :
                  (tr[k].e = "action" /\ BlockOf(G, tr[k]).kind = "decision") => moved

\* every run pointer that is not null belongs to an active state
NoStalePointers(g) ==
    LET G == Prog(g)
        active == IF sm[g].root THEN ActiveStates(G, Ctx(g), <<root>>) ELSE {}
    IN  \A p \in DOMAIN G.nodes :
            (p # <<root>> /\ Ctx(g).ptrs[G.pp[p].run] # NoFn) => DropLast(p, 1) \in active

\* C36 (as claimed): between ticks the in-state predicate of a non-root state X is true
\* only if X is really active, every ancestor of X being the active child or
\* an active region of its own parent; no composite keeps a run pointer that
\* is not null after it has been deactivated or replaced.
C36_Claim ==
    \A g \in Gens : RunningMachine(g) =>
        LET G == Prog(g)
            active == IF sm[g].root THEN ActiveStates(G, Ctx(g), <<root>>) ELSE {}
        IN  /\ \A p \in DOMAIN G.nodes \ {<<root>>} : in_state(G, Ctx(g), p) => p \in active
            /\ NoStalePointers(g)

\* C37: in every reachable configuration the run pointer and the exit
\* pointer of every composite-OR state and of every region slot refer to the
\* same child or are both null: the run pointer is the do of child c exactly
\* when the exit pointer is the exit of c.
C37_PointerPairs ==
    \A g \in Gens : RunningMachine(g) =>
        LET G == Prog(g)
            ptrs == Ctx(g).ptrs
        IN  \A c \in DOMAIN G.nodes \ {<<root>>} :
                /\ ptrs[G.pp[c].run] = Fn(c, "do") <=> ptrs[G.pp[c].exit] = Fn(c, "exit")
                /\ ptrs[G.pp[c].run] = NoFn <=> ptrs[G.pp[c].exit] = NoFn

\* the container S has left its child M for s2: the pair of S names s2 and
\* the pair of M, set when M was entered, is null again
C37_Witness ==
    /\ chart = "container" /\ RunningMachine("rust") /\ ticks > 0
    /\ Ctx("rust").ptrs[PtrName(CName(Pth(<<"S">>)))] = Fn(Pth(<<"S", "s2">>), "do")
    /\ Ctx("rust").ptrs[PtrExitName(CName(Pth(<<"S">>)))] = Fn(Pth(<<"S", "s2">>), "exit")
    /\ Ctx("rust").ptrs[PtrName(CName(Pth(<<"S", "M">>)))] = NoFn
    /\ Ctx("rust").ptrs[PtrExitName(CName(Pth(<<"S", "M">>)))] = NoFn
    /\ \E k \in DOMAIN TraceOf("rust") : TraceOf("rust")[k] = Ev("exit", Pth(<<"S", "M">>), 0, TRUE)

\* C38 (as claimed): for every model that collect_decisions and
\* validate_model accept, emission completes without raising and every
\* function called in an emitted exit or entry sequence is a function
\* emitted for a state of the model, targets inside decision rules included.
C38_Claim ==
    (Returned("main") /\ probe.exit = 0) =>
        \A gen \in Gens : Emits(gen, Compiled) /\ Links(gen, Compiled)

====
